---- MODULE Spec2Model ----
(***************************************************************************)
(* A model of cdti_data_export.py: the four field extractors, dictify and  *)
(* get_data_from_dicoms_and_export, with the Python built-ins they call.   *)
(*                                                                         *)
(* A text (the content of a Python str) is the sequence of its code        *)
(* points.  Python values are records told apart by their field kind:      *)
(*   "none"  : None                                                        *)
(*   "str"   : s is the text                                               *)
(*   "int"   : sign (1 or -1) and mag, the decimal digits of the           *)
(*             magnitude, none for 0                                       *)
(*   "float" : form "finite", "inf" or "nan"; a finite float is            *)
(*             sign * 0.d1d2... * 10^exp, digits the significant digits    *)
(*             repr() writes for the double (no zero at either end, none   *)
(*             for 0.0 and -0.0)                                           *)
(*   "list"  : items is the list                                           *)
(*   "dict"  : entries is the sequence of [key, value] in insertion order, *)
(*             each key a text                                             *)
(* A pydicom Dataset is the sequence of its elements in tag order, each    *)
(* [tag, VR, keyword, value]; the value of an SQ element is a "list" of    *)
(* Datasets, and the keyword of a private element is the empty text.       *)
(***************************************************************************)
EXTENDS Integers, Sequences, FiniteSets, TLC

VARIABLES
    disk,               \* the input directory: file number -> file content
    pc,                 \* position in get_data_from_dicoms_and_export
    error,              \* the exception that ended the run, or "none"
    converter,          \* outcome of the dcm2niix command: "none", "ok", "failed"
    converter_calls,    \* how many times the command was run
    dicom_files,        \* the sorted list of file numbers
    dicom_type,         \* 0 before classification, then 1 (legacy) or 2 (modern)
    n_images_per_file,
    idx,                \* number of files fully processed
    frame_idx,          \* next frame of the current file
    c_dicom_header,     \* the flattened header of the current file
    df,                 \* the rows assembled so far
    calls,              \* history: <<file, dicom_type, frame_idx>> of every extraction
    csv,                \* the table in rr_timings.csv
    csv_writes,         \* how many times rr_timings.csv was written
    h_in,               \* extractor harness: the fields drawn
    h_pc,               \* extractor harness: position
    h_legacy,           \* extractor harness: the row under dicom_type 1
    h_modern            \* extractor harness: the row under dicom_type 2

vars == <<disk, pc, error, converter, converter_calls, dicom_files, dicom_type,
          n_images_per_file, idx, frame_idx, c_dicom_header, df, calls, csv,
          csv_writes, h_in, h_pc, h_legacy, h_modern>>

run_vars == <<disk, pc, error, converter, converter_calls, dicom_files, dicom_type,
              n_images_per_file, idx, frame_idx, c_dicom_header, df, calls, csv,
              csv_writes>>

harness_vars == <<h_in, h_pc, h_legacy, h_modern>>

-----------------------------------------------------------------------------
(* Python values *)

None == [kind |-> "none"]

StrV(s) == [kind |-> "str", s |-> s]

(* An int of any size: its sign and the digits of its magnitude. *)
BigIntV(sign, mag) == [kind |-> "int", sign |-> sign, mag |-> mag]

(* The digits of n > 0; none for 0. *)
RECURSIVE NatDigits(_)
NatDigits(n) == IF n = 0 THEN <<>> ELSE Append(NatDigits(n \div 10), n % 10)

(* The int n. *)
IntV(n) == BigIntV(IF n < 0 THEN -1 ELSE 1, NatDigits(IF n < 0 THEN 0 - n ELSE n))

(* The float whose repr() has the significant digits given, the point       *)
(* standing exp places after their start: 0.d1d2... * 10^exp.               *)
FloatV(sign, digits, exp) ==
    [kind |-> "float", form |-> "finite", sign |-> sign, digits |-> digits, exp |-> exp]

Inf(sign) == [kind |-> "float", form |-> "inf", sign |-> sign, digits |-> <<>>, exp |-> 0]

NaN == [kind |-> "float", form |-> "nan", sign |-> 1, digits |-> <<>>, exp |-> 0]

ListV(items) == [kind |-> "list", items |-> items]

(* A dict: its keys, each a text, with their values, in the order the keys   *)
(* were first set.                                                          *)
DictV(entries) == [kind |-> "dict", entries |-> entries]

Entry(key, value) == [key |-> key, value |-> value]

(* F(v) with v evaluated once, whatever F does with it. *)
Bind(v, F(_)) == CHOOSE y \in {F(x) : x \in {v}} : TRUE

(* The result of a call: the value returned, or the exception raised. *)
Return(v) == [err |-> "none", val |-> v]

Raise(e) == [err |-> e, val |-> None]

-----------------------------------------------------------------------------
(* Text *)

(* a < b for Python strings: code point order, a proper prefix first. *)
StrLess(a, b) ==
    \E i \in 1..(Len(b)) :
        /\ \A j \in 1..(i - 1) : j <= Len(a) /\ a[j] = b[j]
        /\ \/ i = Len(a) + 1
           \/ i <= Len(a) /\ a[i] < b[i]

(* s[k:] for k >= 0 *)
SliceFrom(s, k) == IF k >= Len(s) THEN <<>> ELSE SubSeq(s, k + 1, Len(s))

(* s[:k] for k >= 0 *)
SliceTo(s, k) == IF k >= Len(s) THEN s ELSE SubSeq(s, 1, k)

(* s.replace(old, new) for one-character old and new *)
replace(s, old, new) == [i \in 1..Len(s) |-> IF s[i] = old THEN new ELSE s[i]]

(* The decimal text of an integer. *)
RECURSIVE IntToStr(_)
IntToStr(n) ==
    IF n < 0 THEN <<45>> \o IntToStr(0 - n)
    ELSE IF n < 10 THEN <<48 + n>>
    ELSE Append(IntToStr(n \div 10), 48 + (n % 10))

(* The code points of the digit 0 in every script: the nine code points     *)
(* after each are its digits 1 to 9 (Unicode 14, category Nd).              *)
DecimalZeros ==
    {48, 1632, 1776, 1984, 2406, 2534, 2662, 2790, 2918, 3046, 3174, 3302,
      3430, 3558, 3664, 3792, 3872, 4160, 4240, 6112, 6160, 6470, 6608, 6784,
      6800, 6992, 7088, 7232, 7248, 42528, 43216, 43264, 43472, 43504, 43600,
      44016, 65296, 66720, 68912, 69734, 69872, 69942, 70096, 70384, 70736,
      70864, 71248, 71360, 71472, 71904, 72016, 72784, 73040, 73120, 92768,
      92864, 93008, 120782, 120792, 120802, 120812, 120822, 123200, 123632,
      125264, 130032 }
IsDigit(c) == \E z \in DecimalZeros : z <= c /\ c <= z + 9

DigitValue(c) == c - (CHOOSE z \in DecimalZeros : z <= c /\ c <= z + 9)

(* The value of a sequence of digits that an integer here can hold. *)
RECURSIVE DigitsToInt(_)
DigitsToInt(ds) ==
    IF ds = <<>> THEN 0
    ELSE 10 * DigitsToInt(SubSeq(ds, 1, Len(ds) - 1)) + ds[Len(ds)]

-----------------------------------------------------------------------------
(* Whole numbers of any size: the sequence of the decimal digits, the most  *)
(* significant first, the empty sequence for 0.                             *)

Zeros(k) == [i \in 1..k |-> 0]

(* a without its leading zeros *)
NatTrim(a) ==
    IF \A i \in 1..Len(a) : a[i] = 0 THEN <<>>
    ELSE SubSeq(a, CHOOSE i \in 1..Len(a) : a[i] # 0 /\ \A j \in 1..(i - 1) : a[j] = 0,
                Len(a))

(* a without its trailing zeros *)
DropTrailingZeros(a) ==
    IF \A i \in 1..Len(a) : a[i] = 0 THEN <<>>
    ELSE SubSeq(a, 1,
                CHOOSE i \in 1..Len(a) : a[i] # 0 /\ \A j \in (i + 1)..Len(a) : a[j] = 0)

NatLess(a, b) ==
    \/ Len(a) < Len(b)
    \/ /\ Len(a) = Len(b)
       /\ \E i \in 1..Len(a) : a[i] < b[i] /\ \A j \in 1..(i - 1) : a[j] = b[j]

NatOdd(a) == a # <<>> /\ a[Len(a)] % 2 = 1

(* 2a: a digit takes a carry when the digit after it is 5 or more *)
NatDouble(a) ==
    (IF a # <<>> /\ a[1] >= 5 THEN <<1>> ELSE <<>>)
    \o [i \in 1..Len(a) |->
           (2 * a[i] + (IF i < Len(a) /\ a[i + 1] >= 5 THEN 1 ELSE 0)) % 10]

(* a \div 2: a digit takes ten when the digit before it is odd *)
NatHalf(a) ==
    SliceFrom([i \in 1..Len(a) |->
                  (a[i] + (IF i > 1 /\ a[i - 1] % 2 = 1 THEN 10 ELSE 0)) \div 2],
              IF a # <<>> /\ a[1] < 2 THEN 1 ELSE 0)

(* a + 1: the digits after which all are 9 move on *)
NatInc(a) ==
    IF \A i \in 1..Len(a) : a[i] = 9 THEN <<1>> \o Zeros(Len(a))
    ELSE [i \in 1..Len(a) |->
             IF \A j \in (i + 1)..Len(a) : a[j] = 9 THEN (a[i] + 1) % 10 ELSE a[i]]

(* 5a *)
NatFive(a) == IF a = <<>> THEN <<>> ELSE Bind(Append(a, 0), LAMBDA t : NatHalf(t))

(* Whether digit i of a - b lends to the digit before it, a and b of one     *)
(* length: the first digits to differ after it decide.                      *)
Borrows(a, b, i) ==
    IF \A j \in i..Len(a) : a[j] = b[j] THEN FALSE
    ELSE a[CHOOSE j \in i..Len(a) : a[j] # b[j] /\ \A k \in i..(j - 1) : a[k] = b[k]]
         < b[CHOOSE j \in i..Len(a) : a[j] # b[j] /\ \A k \in i..(j - 1) : a[k] = b[k]]

(* a - b for a >= b *)
NatSub(a, b) ==
    Bind(Zeros(Len(a) - Len(b)) \o b, LAMBDA p :
        NatTrim([i \in 1..Len(a) |->
                    (10 + a[i] - p[i] - (IF Borrows(a, p, i + 1) THEN 1 ELSE 0)) % 10]))

(* a * 2^k *)
RECURSIVE DoubleTimes(_, _)
DoubleTimes(a, k) ==
    IF k = 0 THEN a
    ELSE IF k = 1 THEN NatDouble(a)
    ELSE Bind(DoubleTimes(a, k \div 2), LAMBDA h : DoubleTimes(h, k - (k \div 2)))

(* a \div 2^k *)
RECURSIVE HalfTimes(_, _)
HalfTimes(a, k) ==
    IF k = 0 THEN a
    ELSE IF k = 1 THEN NatHalf(a)
    ELSE Bind(HalfTimes(a, k \div 2), LAMBDA h : HalfTimes(h, k - (k \div 2)))

(* a * 5^k *)
RECURSIVE FiveTimes(_, _)
FiveTimes(a, k) ==
    IF k = 0 THEN a
    ELSE IF k = 1 THEN NatFive(a)
    ELSE Bind(FiveTimes(a, k \div 2), LAMBDA h : FiveTimes(h, k - (k \div 2)))

-----------------------------------------------------------------------------
(* Doubles.  A finite double is m * 2^q with m < 2^53: 2^52 <= m for a      *)
(* normal one, q = -1074 for a subnormal one.                               *)

Two52 == <<4, 5, 0, 3, 5, 9, 9, 6, 2, 7, 3, 7, 0, 4, 9, 6>>

Two53 == <<9, 0, 0, 7, 1, 9, 9, 2, 5, 4, 7, 4, 0, 9, 9, 2>>

Binary(form, m, q) == [form |-> form, m |-> m, q |-> q]

(* One step of the long division of r by t in base 2: the state <<r, t, m>> *)
(* after the next bit of the quotient m is found.                           *)
DivStep(s) ==
    IF NatLess(s[1], s[2])
    THEN <<s[1], NatHalf(s[2]), NatDouble(s[3])>>
    ELSE <<NatSub(s[1], s[2]), NatHalf(s[2]), NatInc(NatDouble(s[3]))>>

(* k steps of the division from the state s. *)
RECURSIVE DivSteps(_, _)
DivSteps(s, k) ==
    IF k = 0 THEN s
    ELSE IF k = 1 THEN DivStep(s)
    ELSE Bind(DivSteps(s, k \div 2), LAMBDA s2 : DivSteps(s2, k - (k \div 2)))

(* The double with quotient m, remainder r of the division by b at exponent *)
(* q: to the nearest, a tie to the even m.                                  *)
RoundedBinary(m, r, b, q) ==
    Bind(NatDouble(r), LAMBDA r2 :
        Bind(IF NatLess(b, r2) \/ (r2 = b /\ NatOdd(m)) THEN NatInc(m) ELSE m, LAMBDA m2 :
            IF m2 = <<>> THEN Binary("zero", <<>>, 0)
            ELSE IF m2 = Two53
            THEN (IF q + 1 > 971 THEN Binary("inf", <<>>, 0) ELSE Binary("finite", Two52, q + 1))
            ELSE IF q > 971 THEN Binary("inf", <<>>, 0)
            ELSE Binary("finite", m2, q)))

(* The double nearest n/d, whose exponent is q. *)
DivideAt(n, d, q) ==
    Bind(<<DoubleTimes(n, IF q < 0 THEN 0 - q ELSE 0),
           DoubleTimes(d, IF q > 0 THEN q ELSE 0)>>,
         LAMBDA ab :
             Bind(DivSteps(<<ab[1], DoubleTimes(ab[2], 52), <<>> >>, 53), LAMBDA s :
                 RoundedBinary(s[3], s[1], ab[2], q)))

(* The least u from u0 on with n/d < 2^u, given n/d >= 2^(u0 - 1). *)
BinaryExponent(n, d, u0) ==
    Bind(<<DoubleTimes(n, IF u0 < 0 THEN 0 - u0 ELSE 0),
           DoubleTimes(d, IF u0 > 0 THEN u0 ELSE 0)>>,
         LAMBDA ab :
             u0 + (CHOOSE j \in 0..8 :
                       /\ NatLess(ab[1], DoubleTimes(ab[2], j))
                       /\ \A k \in 0..(j - 1) : ~NatLess(ab[1], DoubleTimes(ab[2], k))))

(* The double nearest 0.sig * 10^decpt, sig digits that start with no zero  *)
(* and decpt in -330..310.                                                  *)
ToBinary(sig, decpt) ==
    Bind(<<IF decpt > Len(sig) THEN sig \o Zeros(decpt - Len(sig)) ELSE sig,
           IF decpt < Len(sig) THEN <<1>> \o Zeros(Len(sig) - decpt) ELSE <<1>> >>,
         LAMBDA nd :
             Bind(BinaryExponent(nd[1], nd[2], (((decpt - 1) * 3321928) \div 1000000) - 1),
                  LAMBDA u :
                      DivideAt(nd[1], nd[2], IF u - 53 < -1074 THEN -1074 ELSE u - 53)))

(* The double m * 2^q and the decimals that read back as it, as integers   *)
(* of one scale: x the double, below and above how far from it a decimal    *)
(* may lie (half the way to the next double: a quarter of the step above    *)
(* when the double below is nearer, at a power of two), inclusive if m is   *)
(* even; decpt where the point of 0.x is.                                   *)
Neighbourhood(m, q) ==
    Bind(<<IF q < 0 THEN FiveTimes(m, 0 - q) ELSE DoubleTimes(m, q),
           NatFive(IF q < 0 THEN FiveTimes(<<1>>, 0 - q) ELSE DoubleTimes(<<1>>, q))>>,
         LAMBDA xu :
             [x |-> xu[1] \o <<0, 0>>,
              above |-> Append(xu[2], 0),
              below |-> IF m = Two52 /\ q > -1074 THEN NatFive(xu[2]) ELSE Append(xu[2], 0),
              even |-> ~NatOdd(m),
              decpt |-> Len(xu[1]) + (IF q < 0 THEN q ELSE 0)])

(* A decimal this far from the double reads back as it. *)
Within(gap, limit, even) == NatLess(gap, limit) \/ (even /\ gap = limit)

(* The decimal of n digits next below the double reads back as it. *)
BelowReads(nb, n) == Within(NatTrim(SliceFrom(nb.x, n)), nb.below, nb.even)

(* The decimal of n digits next above the double reads back as it. *)
AboveReads(nb, n) ==
    Within(NatSub(NatInc(SliceTo(nb.x, n)) \o Zeros(Len(nb.x) - n), nb.x), nb.above, nb.even)

(* Some decimal of n digits reads back as the double. *)
Reads(nb, n) == n >= Len(nb.x) \/ BelowReads(nb, n) \/ AboveReads(nb, n)

(* The decimal of n digits that reads back as the double: the nearer of the *)
(* two around it if both do, the even one if they are as near.              *)
RoundTrip(nb, n) ==
    IF n >= Len(nb.x) THEN <<DropTrailingZeros(nb.x), nb.decpt>>
    ELSE Bind(SliceTo(nb.x, n), LAMBDA lo :
             Bind(NatInc(lo), LAMBDA hi :
                 IF /\ AboveReads(nb, n)
                    /\ \/ ~BelowReads(nb, n)
                       \/ nb.x[n + 1] > 5
                       \/ /\ nb.x[n + 1] = 5
                          /\ \/ NatTrim(SliceFrom(nb.x, n + 1)) # <<>>
                             \/ lo[n] % 2 = 1
                 THEN (IF Len(hi) > n THEN << <<1>>, nb.decpt + 1 >>
                       ELSE <<DropTrailingZeros(hi), nb.decpt>>)
                 ELSE <<DropTrailingZeros(lo), nb.decpt>>))

(* The most digits repr() needs to tell one double from the next. *)
MaxReprDigits == 17

(* The shortest decimal that reads back as the double: a decimal one digit  *)
(* longer than one that reads back reads back too.                          *)
Shortest(nb) ==
    RoundTrip(nb, CHOOSE n \in 1..MaxReprDigits :
                      Reads(nb, n) /\ (n = 1 \/ ~Reads(nb, n - 1)))

(* The float that the double b is: the digits repr() writes for it. *)
FromBinary(sign, b) ==
    IF b.form = "inf" THEN Inf(sign)
    ELSE IF b.form = "zero" THEN FloatV(sign, <<>>, 0)
    ELSE Bind(Neighbourhood(b.m, b.q), LAMBDA nb :
             Bind(Shortest(nb), LAMBDA r : FloatV(sign, r[1], r[2])))

(* sign * 0.sig0 * 10^decpt as a float, sig0 digits that start with no      *)
(* zero.  A decimal of up to 15 digits well inside the range of a double    *)
(* is the shortest that reads back as its double; any other is rounded to   *)
(* its double first.                                                        *)
Scaled(sign, sig0, decpt) ==
    Bind(DropTrailingZeros(sig0), LAMBDA sig :
        IF sig = <<>> THEN FloatV(sign, <<>>, 0)
        ELSE IF decpt > 310 THEN Inf(sign)
        ELSE IF decpt < -330 THEN FloatV(sign, <<>>, 0)
        ELSE IF Len(sig) <= 15 /\ decpt >= -290 /\ decpt <= 290 THEN FloatV(sign, sig, decpt)
        ELSE FromBinary(sign, ToBinary(sig, decpt)))

-----------------------------------------------------------------------------
(* float(), round() and str() *)

(* The white space float() skips at both ends of its text. *)
IsSpace(c) ==
    \/ c \in 9..13
    \/ c \in {32, 133, 160, 5760, 8232, 8233, 8239, 8287, 12288}
    \/ c \in 8192..8202

(* s without its leading and trailing white space *)
Strip(s) ==
    IF \A i \in 1..Len(s) : IsSpace(s[i]) THEN <<>>
    ELSE SubSeq(s,
                CHOOSE i \in 1..Len(s) : ~IsSpace(s[i]) /\ \A j \in 1..(i - 1) : IsSpace(s[j]),
                CHOOSE i \in 1..Len(s) : ~IsSpace(s[i]) /\ \A j \in (i + 1)..Len(s) : IsSpace(s[j]))

(* A capital ASCII letter as the small one, which is as far as float()     *)
(* takes the case of inf, infinity and nan to make no difference.           *)
Lower(c) == IF c \in 65..90 THEN c + 32 ELSE c

LowerText(s) == [i \in 1..Len(s) |-> Lower(s[i])]

(* An underscore (95) may stand only between two digits. *)
UnderscoresOk(s) ==
    \A i \in 1..Len(s) :
        s[i] = 95 => i > 1 /\ i < Len(s) /\ IsDigit(s[i - 1]) /\ IsDigit(s[i + 1])

(* "+" (43) or "-" (45) *)
IsSign(c) == c = 43 \/ c = 45

SignOf(s) == IF s # <<>> /\ s[1] = 45 THEN -1 ELSE 1

(* s without a leading sign *)
Unsigned(s) == IF s # <<>> /\ IsSign(s[1]) THEN SubSeq(s, 2, Len(s)) ELSE s

AllDigits(s) == s # <<>> /\ \A i \in 1..Len(s) : IsDigit(s[i])

(* digits with at most one point (46) and at least one digit *)
IsMantissa(s) ==
    /\ \A i \in 1..Len(s) : IsDigit(s[i]) \/ s[i] = 46
    /\ Cardinality({i \in 1..Len(s) : s[i] = 46}) <= 1
    /\ \E i \in 1..Len(s) : IsDigit(s[i])

(* "e" (101) or "E" (69) *)
IsExponentMark(c) == c = 101 \/ c = 69

(* Where the first exponent mark stands in s, or Len(s) + 1. *)
ExponentMark(s) ==
    IF \E i \in 1..Len(s) : IsExponentMark(s[i])
    THEN CHOOSE i \in 1..Len(s) :
             IsExponentMark(s[i]) /\ \A j \in 1..(i - 1) : ~IsExponentMark(s[j])
    ELSE Len(s) + 1

(* Where the point stands in mantissa m, or Len(m) + 1. *)
PointAt(m) ==
    IF \E i \in 1..Len(m) : m[i] = 46 THEN CHOOSE i \in 1..Len(m) : m[i] = 46
    ELSE Len(m) + 1

(* The digits that digit text writes. *)
DigitsOf(s) == [i \in 1..Len(s) |-> DigitValue(s[i])]

(* The most digits float() reads in a number. *)
MaxDigits == 1000000000

(* Mantissa m is one float() reads: neither its digits from the first that  *)
(* is not 0, nor its digits after the point, are more than MaxDigits.       *)
DigitsInRange(m) ==
    /\ Len(NatTrim(DigitsOf(SelectSeq(m, LAMBDA c : c # 46)))) <= MaxDigits
    /\ Len(SliceFrom(m, PointAt(m))) <= MaxDigits

(* Decimal text without sign: mantissa, then maybe e, a sign and digits. *)
IsNumber(s) ==
    /\ IsMantissa(SubSeq(s, 1, ExponentMark(s) - 1))
    /\ DigitsInRange(SubSeq(s, 1, ExponentMark(s) - 1))
    /\ ExponentMark(s) <= Len(s) => AllDigits(Unsigned(SubSeq(s, ExponentMark(s) + 1, Len(s))))

(* The exponent float() takes for one of more than nine digits. *)
MaxAbsExp == 1100000000

(* The exponent that signed digit text writes, its leading zeros not         *)
(* counted: up to nine digits are kept as they stand, and MaxAbsExp stands   *)
(* for any longer one.                                                       *)
ExponentValue(s) ==
    Bind(NatTrim(DigitsOf(Unsigned(s))), LAMBDA ds :
        SignOf(s) * (IF Len(ds) > 9 THEN MaxAbsExp ELSE DigitsToInt(ds)))

(* The mantissa of number text s: what stands before the exponent mark. *)
MantissaOf(s) == SubSeq(s, 1, ExponentMark(s) - 1)

(* The exponent number text s writes, 0 if none. *)
ExponentOf(s) ==
    IF ExponentMark(s) <= Len(s) THEN ExponentValue(SubSeq(s, ExponentMark(s) + 1, Len(s)))
    ELSE 0

(* The digits of mantissa m, the point left out. *)
MantissaDigits(m) == DigitsOf(SubSeq(m, 1, PointAt(m) - 1) \o SliceFrom(m, PointAt(m)))

(* The value of number text s (no sign, no underscore). *)
NumberValue(sign, s) ==
    Bind(MantissaDigits(MantissaOf(s)), LAMBDA all :
        Scaled(sign, NatTrim(all),
               (PointAt(MantissaOf(s)) - 1) - (Len(all) - Len(NatTrim(all))) + ExponentOf(s)))

(* The stripped text t of float(): a sign, then inf, infinity, nan or a      *)
(* number; anything else raises ValueError.                                  *)
ParseStripped(t) ==
    IF ~UnderscoresOk(t) THEN Raise("ValueError")
    ELSE Bind(Unsigned(SelectSeq(t, LAMBDA c : c # 95)), LAMBDA u :
             IF LowerText(u) \in {<<105, 110, 102>>, <<105, 110, 102, 105, 110, 105, 116, 121>>}
             THEN Return(Inf(SignOf(t)))
             ELSE IF LowerText(u) = <<110, 97, 110>> THEN Return(NaN)
             ELSE IF IsNumber(u) THEN Return(NumberValue(SignOf(t), u))
             ELSE Raise("ValueError"))

(* float(s) for a str s: white space stripped, digits of any script read,    *)
(* underscores between digits dropped, then a signed decimal with optional   *)
(* exponent, or inf, infinity, nan in any case; any other text raises        *)
(* ValueError.                                                               *)
ParseFloat(s) == Bind(Strip(s), LAMBDA t : ParseStripped(t))

(* float(n) for an int: up to 15 digits are held exactly; a longer int is    *)
(* rounded to its double, and one past the largest double raises.           *)
IntToFloat(v) ==
    IF Len(v.mag) <= 15 THEN Return(FloatV(v.sign, DropTrailingZeros(v.mag), Len(v.mag)))
    ELSE IF Len(v.mag) > 310 THEN Raise("OverflowError")
    ELSE Bind(ToBinary(v.mag, Len(v.mag)), LAMBDA b :
             IF b.form = "inf" THEN Raise("OverflowError")
             ELSE Return(FromBinary(v.sign, b)))

(* float(v) *)
float(v) ==
    CASE v.kind = "str" -> ParseFloat(v.s)
      [] v.kind = "int" -> IntToFloat(v)
      [] v.kind = "float" -> Return(v)
      [] OTHER -> Raise("TypeError")

(* The int nearest a float below 10^15, read off its digits: tieEven says    *)
(* where a tie goes ("up" or "down") when the whole part is even, tieOdd     *)
(* when it is odd.                                                           *)
RoundDigits(x, tieEven, tieOdd) ==
    Bind(IF x.exp <= 0 THEN <<>>
         ELSE IF x.exp >= Len(x.digits) THEN x.digits \o Zeros(x.exp - Len(x.digits))
         ELSE SubSeq(x.digits, 1, x.exp),
         LAMBDA whole :
             Bind(IF x.exp < 0 \/ x.exp >= Len(x.digits) THEN "down"
                  ELSE IF x.digits[x.exp + 1] > 5 THEN "up"
                  ELSE IF x.digits[x.exp + 1] < 5 THEN "down"
                  ELSE IF Len(x.digits) > x.exp + 1 THEN "up"
                  ELSE IF NatOdd(whole) THEN tieOdd ELSE tieEven,
                  LAMBDA way :
                      Bind(IF way = "up" THEN NatInc(whole) ELSE whole, LAMBDA mag :
                          BigIntV(IF mag = <<>> THEN 1 ELSE x.sign, mag))))

(* The int nearest the double m * 2^q, a tie to the even one. *)
RoundBinary(sign, m, q) ==
    IF q >= 0 THEN BigIntV(sign, DoubleTimes(m, q))
    ELSE Bind(HalfTimes(m, 0 - q), LAMBDA whole :
             Bind(NatDouble(NatSub(m, DoubleTimes(whole, 0 - q))), LAMBDA r2 :
                 Bind(DoubleTimes(<<1>>, 0 - q), LAMBDA one :
                     Bind(IF NatLess(one, r2) \/ (r2 = one /\ NatOdd(whole))
                          THEN NatInc(whole) ELSE whole,
                          LAMBDA mag : BigIntV(IF mag = <<>> THEN 1 ELSE sign, mag)))))

(* Mutant: a tie going up. *)
round_HalfUp(x) ==
    IF x.kind = "int" THEN Return(x)
    ELSE IF x.kind # "float" THEN Raise("TypeError")
    ELSE IF x.form = "nan" THEN Raise("ValueError")
    ELSE IF x.form = "inf" THEN Raise("OverflowError")
    ELSE IF x.exp <= 15 THEN Return(RoundDigits(x, "up", "up"))
    ELSE Bind(ToBinary(x.digits, x.exp), LAMBDA b : Return(RoundBinary(x.sign, b.m, b.q)))

(* round(x): for a float the nearest int, a tie going to the even one; nan   *)
(* raises ValueError and an infinity OverflowError.  Below 10^15 the digits  *)
(* of repr() decide as the double does; from there on the double is worked   *)
(* out.  An int is its own round(), and nothing else has one.                *)
round(x) ==
    IF x.kind = "int" THEN Return(x)
    ELSE IF x.kind # "float" THEN Raise("TypeError")
    ELSE IF x.form = "nan" THEN Raise("ValueError")
    ELSE IF x.form = "inf" THEN Raise("OverflowError")
    ELSE IF x.exp <= 15 THEN Return(RoundDigits(x, "down", "up"))
    ELSE Bind(ToBinary(x.digits, x.exp), LAMBDA b : Return(RoundBinary(x.sign, b.m, b.q)))

(* The ASCII text of a sequence of digits. *)
DigitText(ds) == [i \in 1..Len(ds) |-> 48 + ds[i]]

(* The most digits an int may have for str() and repr() to write it. *)
MaxStrDigits == 4300

(* repr(n) for an int: its digits after the sign; an int of more than        *)
(* MaxStrDigits digits raises ValueError.                                    *)
IntRepr(v) ==
    IF Len(v.mag) > MaxStrDigits THEN Raise("ValueError")
    ELSE IF v.mag = <<>> THEN Return(StrV(<<48>>))
    ELSE Return(StrV((IF v.sign < 0 THEN <<45>> ELSE <<>>) \o DigitText(v.mag)))

(* repr(x) for a float: its shortest digits, with the point placed when it   *)
(* stands from 4 places before the digits to 16 places after their start,    *)
(* else with an exponent of two digits or more.                              *)
FloatRepr(x) ==
    IF x.form = "nan" THEN <<110, 97, 110>>
    ELSE (IF x.sign < 0 THEN <<45>> ELSE <<>>) \o
         (IF x.form = "inf" THEN <<105, 110, 102>>
          ELSE IF x.digits = <<>> THEN <<48, 46, 48>>
          ELSE IF x.exp > 16 \/ x.exp < -3
          THEN DigitText(<<x.digits[1]>>)
               \o (IF Len(x.digits) > 1 THEN <<46>> \o DigitText(Tail(x.digits)) ELSE <<>>)
               \o <<101>> \o (IF x.exp - 1 < 0 THEN <<45>> ELSE <<43>>)
               \o (IF x.exp - 1 < 10 /\ x.exp - 1 > -10 THEN <<48>> ELSE <<>>)
               \o IntToStr(IF x.exp - 1 < 0 THEN 1 - x.exp ELSE x.exp - 1)
          ELSE IF x.exp <= 0 THEN <<48, 46>> \o DigitText(Zeros(0 - x.exp) \o x.digits)
          ELSE IF x.exp >= Len(x.digits)
          THEN DigitText(x.digits \o Zeros(x.exp - Len(x.digits))) \o <<46, 48>>
          ELSE DigitText(SubSeq(x.digits, 1, x.exp)) \o <<46>>
               \o DigitText(SliceFrom(x.digits, x.exp)))

(* The ranges of code points from 128 on that repr() writes as escapes      *)
(* (Unicode 14: not printable).                                             *)
NotPrintable ==
    {<<128, 160>>, <<173, 173>>, <<888, 889>>, <<896, 899>>, <<907, 907>>,
      <<909, 909>>, <<930, 930>>, <<1328, 1328>>, <<1367, 1368>>,
      <<1419, 1420>>, <<1424, 1424>>, <<1480, 1487>>, <<1515, 1518>>,
      <<1525, 1541>>, <<1564, 1564>>, <<1757, 1757>>, <<1806, 1807>>,
      <<1867, 1868>>, <<1970, 1983>>, <<2043, 2044>>, <<2094, 2095>>,
      <<2111, 2111>>, <<2140, 2141>>, <<2143, 2143>>, <<2155, 2159>>,
      <<2191, 2199>>, <<2274, 2274>>, <<2436, 2436>>, <<2445, 2446>>,
      <<2449, 2450>>, <<2473, 2473>>, <<2481, 2481>>, <<2483, 2485>>,
      <<2490, 2491>>, <<2501, 2502>>, <<2505, 2506>>, <<2511, 2518>>,
      <<2520, 2523>>, <<2526, 2526>>, <<2532, 2533>>, <<2559, 2560>>,
      <<2564, 2564>>, <<2571, 2574>>, <<2577, 2578>>, <<2601, 2601>>,
      <<2609, 2609>>, <<2612, 2612>>, <<2615, 2615>>, <<2618, 2619>>,
      <<2621, 2621>>, <<2627, 2630>>, <<2633, 2634>>, <<2638, 2640>>,
      <<2642, 2648>>, <<2653, 2653>>, <<2655, 2661>>, <<2679, 2688>>,
      <<2692, 2692>>, <<2702, 2702>>, <<2706, 2706>>, <<2729, 2729>>,
      <<2737, 2737>>, <<2740, 2740>>, <<2746, 2747>>, <<2758, 2758>>,
      <<2762, 2762>>, <<2766, 2767>>, <<2769, 2783>>, <<2788, 2789>>,
      <<2802, 2808>>, <<2816, 2816>>, <<2820, 2820>>, <<2829, 2830>>,
      <<2833, 2834>>, <<2857, 2857>>, <<2865, 2865>>, <<2868, 2868>>,
      <<2874, 2875>>, <<2885, 2886>>, <<2889, 2890>>, <<2894, 2900>>,
      <<2904, 2907>>, <<2910, 2910>>, <<2916, 2917>>, <<2936, 2945>>,
      <<2948, 2948>>, <<2955, 2957>>, <<2961, 2961>>, <<2966, 2968>>,
      <<2971, 2971>>, <<2973, 2973>>, <<2976, 2978>>, <<2981, 2983>>,
      <<2987, 2989>>, <<3002, 3005>>, <<3011, 3013>>, <<3017, 3017>>,
      <<3022, 3023>>, <<3025, 3030>>, <<3032, 3045>>, <<3067, 3071>>,
      <<3085, 3085>>, <<3089, 3089>>, <<3113, 3113>>, <<3130, 3131>>,
      <<3141, 3141>>, <<3145, 3145>>, <<3150, 3156>>, <<3159, 3159>>,
      <<3163, 3164>>, <<3166, 3167>>, <<3172, 3173>>, <<3184, 3190>>,
      <<3213, 3213>>, <<3217, 3217>>, <<3241, 3241>>, <<3252, 3252>>,
      <<3258, 3259>>, <<3269, 3269>>, <<3273, 3273>>, <<3278, 3284>>,
      <<3287, 3292>>, <<3295, 3295>>, <<3300, 3301>>, <<3312, 3312>>,
      <<3315, 3327>>, <<3341, 3341>>, <<3345, 3345>>, <<3397, 3397>>,
      <<3401, 3401>>, <<3408, 3411>>, <<3428, 3429>>, <<3456, 3456>>,
      <<3460, 3460>>, <<3479, 3481>>, <<3506, 3506>>, <<3516, 3516>>,
      <<3518, 3519>>, <<3527, 3529>>, <<3531, 3534>>, <<3541, 3541>>,
      <<3543, 3543>>, <<3552, 3557>>, <<3568, 3569>>, <<3573, 3584>>,
      <<3643, 3646>>, <<3676, 3712>>, <<3715, 3715>>, <<3717, 3717>>,
      <<3723, 3723>>, <<3748, 3748>>, <<3750, 3750>>, <<3774, 3775>>,
      <<3781, 3781>>, <<3783, 3783>>, <<3790, 3791>>, <<3802, 3803>>,
      <<3808, 3839>>, <<3912, 3912>>, <<3949, 3952>>, <<3992, 3992>>,
      <<4029, 4029>>, <<4045, 4045>>, <<4059, 4095>>, <<4294, 4294>>,
      <<4296, 4300>>, <<4302, 4303>>, <<4681, 4681>>, <<4686, 4687>>,
      <<4695, 4695>>, <<4697, 4697>>, <<4702, 4703>>, <<4745, 4745>>,
      <<4750, 4751>>, <<4785, 4785>>, <<4790, 4791>>, <<4799, 4799>>,
      <<4801, 4801>>, <<4806, 4807>>, <<4823, 4823>>, <<4881, 4881>>,
      <<4886, 4887>>, <<4955, 4956>>, <<4989, 4991>>, <<5018, 5023>>,
      <<5110, 5111>>, <<5118, 5119>>, <<5760, 5760>>, <<5789, 5791>>,
      <<5881, 5887>>, <<5910, 5918>>, <<5943, 5951>>, <<5972, 5983>>,
      <<5997, 5997>>, <<6001, 6001>>, <<6004, 6015>>, <<6110, 6111>>,
      <<6122, 6127>>, <<6138, 6143>>, <<6158, 6158>>, <<6170, 6175>>,
      <<6265, 6271>>, <<6315, 6319>>, <<6390, 6399>>, <<6431, 6431>>,
      <<6444, 6447>>, <<6460, 6463>>, <<6465, 6467>>, <<6510, 6511>>,
      <<6517, 6527>>, <<6572, 6575>>, <<6602, 6607>>, <<6619, 6621>>,
      <<6684, 6685>>, <<6751, 6751>>, <<6781, 6782>>, <<6794, 6799>>,
      <<6810, 6815>>, <<6830, 6831>>, <<6863, 6911>>, <<6989, 6991>>,
      <<7039, 7039>>, <<7156, 7163>>, <<7224, 7226>>, <<7242, 7244>>,
      <<7305, 7311>>, <<7355, 7356>>, <<7368, 7375>>, <<7419, 7423>>,
      <<7958, 7959>>, <<7966, 7967>>, <<8006, 8007>>, <<8014, 8015>>,
      <<8024, 8024>>, <<8026, 8026>>, <<8028, 8028>>, <<8030, 8030>>,
      <<8062, 8063>>, <<8117, 8117>>, <<8133, 8133>>, <<8148, 8149>>,
      <<8156, 8156>>, <<8176, 8177>>, <<8181, 8181>>, <<8191, 8207>>,
      <<8232, 8239>>, <<8287, 8303>>, <<8306, 8307>>, <<8335, 8335>>,
      <<8349, 8351>>, <<8385, 8399>>, <<8433, 8447>>, <<8588, 8591>>,
      <<9255, 9279>>, <<9291, 9311>>, <<11124, 11125>>, <<11158, 11158>>,
      <<11508, 11512>>, <<11558, 11558>>, <<11560, 11564>>, <<11566, 11567>>,
      <<11624, 11630>>, <<11633, 11646>>, <<11671, 11679>>, <<11687, 11687>>,
      <<11695, 11695>>, <<11703, 11703>>, <<11711, 11711>>, <<11719, 11719>>,
      <<11727, 11727>>, <<11735, 11735>>, <<11743, 11743>>, <<11870, 11903>>,
      <<11930, 11930>>, <<12020, 12031>>, <<12246, 12271>>, <<12284, 12288>>,
      <<12352, 12352>>, <<12439, 12440>>, <<12544, 12548>>, <<12592, 12592>>,
      <<12687, 12687>>, <<12772, 12783>>, <<12831, 12831>>, <<42125, 42127>>,
      <<42183, 42191>>, <<42540, 42559>>, <<42744, 42751>>, <<42955, 42959>>,
      <<42962, 42962>>, <<42964, 42964>>, <<42970, 42993>>, <<43053, 43055>>,
      <<43066, 43071>>, <<43128, 43135>>, <<43206, 43213>>, <<43226, 43231>>,
      <<43348, 43358>>, <<43389, 43391>>, <<43470, 43470>>, <<43482, 43485>>,
      <<43519, 43519>>, <<43575, 43583>>, <<43598, 43599>>, <<43610, 43611>>,
      <<43715, 43738>>, <<43767, 43776>>, <<43783, 43784>>, <<43791, 43792>>,
      <<43799, 43807>>, <<43815, 43815>>, <<43823, 43823>>, <<43884, 43887>>,
      <<44014, 44015>>, <<44026, 44031>>, <<55204, 55215>>, <<55239, 55242>>,
      <<55292, 63743>>, <<64110, 64111>>, <<64218, 64255>>, <<64263, 64274>>,
      <<64280, 64284>>, <<64311, 64311>>, <<64317, 64317>>, <<64319, 64319>>,
      <<64322, 64322>>, <<64325, 64325>>, <<64451, 64466>>, <<64912, 64913>>,
      <<64968, 64974>>, <<64976, 65007>>, <<65050, 65055>>, <<65107, 65107>>,
      <<65127, 65127>>, <<65132, 65135>>, <<65141, 65141>>, <<65277, 65280>>,
      <<65471, 65473>>, <<65480, 65481>>, <<65488, 65489>>, <<65496, 65497>>,
      <<65501, 65503>>, <<65511, 65511>>, <<65519, 65531>>, <<65534, 65535>>,
      <<65548, 65548>>, <<65575, 65575>>, <<65595, 65595>>, <<65598, 65598>>,
      <<65614, 65615>>, <<65630, 65663>>, <<65787, 65791>>, <<65795, 65798>>,
      <<65844, 65846>>, <<65935, 65935>>, <<65949, 65951>>, <<65953, 65999>>,
      <<66046, 66175>>, <<66205, 66207>>, <<66257, 66271>>, <<66300, 66303>>,
      <<66340, 66348>>, <<66379, 66383>>, <<66427, 66431>>, <<66462, 66462>>,
      <<66500, 66503>>, <<66518, 66559>>, <<66718, 66719>>, <<66730, 66735>>,
      <<66772, 66775>>, <<66812, 66815>>, <<66856, 66863>>, <<66916, 66926>>,
      <<66939, 66939>>, <<66955, 66955>>, <<66963, 66963>>, <<66966, 66966>>,
      <<66978, 66978>>, <<66994, 66994>>, <<67002, 67002>>, <<67005, 67071>>,
      <<67383, 67391>>, <<67414, 67423>>, <<67432, 67455>>, <<67462, 67462>>,
      <<67505, 67505>>, <<67515, 67583>>, <<67590, 67591>>, <<67593, 67593>>,
      <<67638, 67638>>, <<67641, 67643>>, <<67645, 67646>>, <<67670, 67670>>,
      <<67743, 67750>>, <<67760, 67807>>, <<67827, 67827>>, <<67830, 67834>>,
      <<67868, 67870>>, <<67898, 67902>>, <<67904, 67967>>, <<68024, 68027>>,
      <<68048, 68049>>, <<68100, 68100>>, <<68103, 68107>>, <<68116, 68116>>,
      <<68120, 68120>>, <<68150, 68151>>, <<68155, 68158>>, <<68169, 68175>>,
      <<68185, 68191>>, <<68256, 68287>>, <<68327, 68330>>, <<68343, 68351>>,
      <<68406, 68408>>, <<68438, 68439>>, <<68467, 68471>>, <<68498, 68504>>,
      <<68509, 68520>>, <<68528, 68607>>, <<68681, 68735>>, <<68787, 68799>>,
      <<68851, 68857>>, <<68904, 68911>>, <<68922, 69215>>, <<69247, 69247>>,
      <<69290, 69290>>, <<69294, 69295>>, <<69298, 69375>>, <<69416, 69423>>,
      <<69466, 69487>>, <<69514, 69551>>, <<69580, 69599>>, <<69623, 69631>>,
      <<69710, 69713>>, <<69750, 69758>>, <<69821, 69821>>, <<69827, 69839>>,
      <<69865, 69871>>, <<69882, 69887>>, <<69941, 69941>>, <<69960, 69967>>,
      <<70007, 70015>>, <<70112, 70112>>, <<70133, 70143>>, <<70162, 70162>>,
      <<70207, 70271>>, <<70279, 70279>>, <<70281, 70281>>, <<70286, 70286>>,
      <<70302, 70302>>, <<70314, 70319>>, <<70379, 70383>>, <<70394, 70399>>,
      <<70404, 70404>>, <<70413, 70414>>, <<70417, 70418>>, <<70441, 70441>>,
      <<70449, 70449>>, <<70452, 70452>>, <<70458, 70458>>, <<70469, 70470>>,
      <<70473, 70474>>, <<70478, 70479>>, <<70481, 70486>>, <<70488, 70492>>,
      <<70500, 70501>>, <<70509, 70511>>, <<70517, 70655>>, <<70748, 70748>>,
      <<70754, 70783>>, <<70856, 70863>>, <<70874, 71039>>, <<71094, 71095>>,
      <<71134, 71167>>, <<71237, 71247>>, <<71258, 71263>>, <<71277, 71295>>,
      <<71354, 71359>>, <<71370, 71423>>, <<71451, 71452>>, <<71468, 71471>>,
      <<71495, 71679>>, <<71740, 71839>>, <<71923, 71934>>, <<71943, 71944>>,
      <<71946, 71947>>, <<71956, 71956>>, <<71959, 71959>>, <<71990, 71990>>,
      <<71993, 71994>>, <<72007, 72015>>, <<72026, 72095>>, <<72104, 72105>>,
      <<72152, 72153>>, <<72165, 72191>>, <<72264, 72271>>, <<72355, 72367>>,
      <<72441, 72703>>, <<72713, 72713>>, <<72759, 72759>>, <<72774, 72783>>,
      <<72813, 72815>>, <<72848, 72849>>, <<72872, 72872>>, <<72887, 72959>>,
      <<72967, 72967>>, <<72970, 72970>>, <<73015, 73017>>, <<73019, 73019>>,
      <<73022, 73022>>, <<73032, 73039>>, <<73050, 73055>>, <<73062, 73062>>,
      <<73065, 73065>>, <<73103, 73103>>, <<73106, 73106>>, <<73113, 73119>>,
      <<73130, 73439>>, <<73465, 73647>>, <<73649, 73663>>, <<73714, 73726>>,
      <<74650, 74751>>, <<74863, 74863>>, <<74869, 74879>>, <<75076, 77711>>,
      <<77811, 77823>>, <<78895, 82943>>, <<83527, 92159>>, <<92729, 92735>>,
      <<92767, 92767>>, <<92778, 92781>>, <<92863, 92863>>, <<92874, 92879>>,
      <<92910, 92911>>, <<92918, 92927>>, <<92998, 93007>>, <<93018, 93018>>,
      <<93026, 93026>>, <<93048, 93052>>, <<93072, 93759>>, <<93851, 93951>>,
      <<94027, 94030>>, <<94088, 94094>>, <<94112, 94175>>, <<94181, 94191>>,
      <<94194, 94207>>, <<100344, 100351>>, <<101590, 101631>>,
      <<101641, 110575>>, <<110580, 110580>>, <<110588, 110588>>,
      <<110591, 110591>>, <<110883, 110927>>, <<110931, 110947>>,
      <<110952, 110959>>, <<111356, 113663>>, <<113771, 113775>>,
      <<113789, 113791>>, <<113801, 113807>>, <<113818, 113819>>,
      <<113824, 118527>>, <<118574, 118575>>, <<118599, 118607>>,
      <<118724, 118783>>, <<119030, 119039>>, <<119079, 119080>>,
      <<119155, 119162>>, <<119275, 119295>>, <<119366, 119519>>,
      <<119540, 119551>>, <<119639, 119647>>, <<119673, 119807>>,
      <<119893, 119893>>, <<119965, 119965>>, <<119968, 119969>>,
      <<119971, 119972>>, <<119975, 119976>>, <<119981, 119981>>,
      <<119994, 119994>>, <<119996, 119996>>, <<120004, 120004>>,
      <<120070, 120070>>, <<120075, 120076>>, <<120085, 120085>>,
      <<120093, 120093>>, <<120122, 120122>>, <<120127, 120127>>,
      <<120133, 120133>>, <<120135, 120137>>, <<120145, 120145>>,
      <<120486, 120487>>, <<120780, 120781>>, <<121484, 121498>>,
      <<121504, 121504>>, <<121520, 122623>>, <<122655, 122879>>,
      <<122887, 122887>>, <<122905, 122906>>, <<122914, 122914>>,
      <<122917, 122917>>, <<122923, 123135>>, <<123181, 123183>>,
      <<123198, 123199>>, <<123210, 123213>>, <<123216, 123535>>,
      <<123567, 123583>>, <<123642, 123646>>, <<123648, 124895>>,
      <<124903, 124903>>, <<124908, 124908>>, <<124911, 124911>>,
      <<124927, 124927>>, <<125125, 125126>>, <<125143, 125183>>,
      <<125260, 125263>>, <<125274, 125277>>, <<125280, 126064>>,
      <<126133, 126208>>, <<126270, 126463>>, <<126468, 126468>>,
      <<126496, 126496>>, <<126499, 126499>>, <<126501, 126502>>,
      <<126504, 126504>>, <<126515, 126515>>, <<126520, 126520>>,
      <<126522, 126522>>, <<126524, 126529>>, <<126531, 126534>>,
      <<126536, 126536>>, <<126538, 126538>>, <<126540, 126540>>,
      <<126544, 126544>>, <<126547, 126547>>, <<126549, 126550>>,
      <<126552, 126552>>, <<126554, 126554>>, <<126556, 126556>>,
      <<126558, 126558>>, <<126560, 126560>>, <<126563, 126563>>,
      <<126565, 126566>>, <<126571, 126571>>, <<126579, 126579>>,
      <<126584, 126584>>, <<126589, 126589>>, <<126591, 126591>>,
      <<126602, 126602>>, <<126620, 126624>>, <<126628, 126628>>,
      <<126634, 126634>>, <<126652, 126703>>, <<126706, 126975>>,
      <<127020, 127023>>, <<127124, 127135>>, <<127151, 127152>>,
      <<127168, 127168>>, <<127184, 127184>>, <<127222, 127231>>,
      <<127406, 127461>>, <<127491, 127503>>, <<127548, 127551>>,
      <<127561, 127567>>, <<127570, 127583>>, <<127590, 127743>>,
      <<128728, 128732>>, <<128749, 128751>>, <<128765, 128767>>,
      <<128884, 128895>>, <<128985, 128991>>, <<129004, 129007>>,
      <<129009, 129023>>, <<129036, 129039>>, <<129096, 129103>>,
      <<129114, 129119>>, <<129160, 129167>>, <<129198, 129199>>,
      <<129202, 129279>>, <<129620, 129631>>, <<129646, 129647>>,
      <<129653, 129655>>, <<129661, 129663>>, <<129671, 129679>>,
      <<129709, 129711>>, <<129723, 129727>>, <<129734, 129743>>,
      <<129754, 129759>>, <<129768, 129775>>, <<129783, 129791>>,
      <<129939, 129939>>, <<129995, 130031>>, <<130042, 131071>>,
      <<173792, 173823>>, <<177977, 177983>>, <<178206, 178207>>,
      <<183970, 183983>>, <<191457, 194559>>, <<195102, 196607>>,
      <<201547, 917759>>, <<918000, 1114111>> }
IsPrintable(c) ==
    IF c < 128 THEN c >= 32 /\ c < 127
    ELSE \A r \in NotPrintable : c < r[1] \/ c > r[2]

HexDigit(n) == IF n < 10 THEN 48 + n ELSE 87 + n

(* n in k hexadecimal digits *)
Hex(n, k) == [i \in 1..k |-> HexDigit((n \div (16 ^ (k - i))) % 16)]

(* A character as repr() writes it between quotes of the kind given. *)
CharRepr(c, quote) ==
    IF c = quote \/ c = 92 THEN <<92, c>>
    ELSE IF c = 9 THEN <<92, 116>>
    ELSE IF c = 10 THEN <<92, 110>>
    ELSE IF c = 13 THEN <<92, 114>>
    ELSE IF IsPrintable(c) THEN <<c>>
    ELSE IF c < 256 THEN <<92, 120>> \o Hex(c, 2)
    ELSE IF c < 65536 THEN <<92, 117>> \o Hex(c, 4)
    ELSE <<92, 85>> \o Hex(c, 8)

(* The texts in order, put end to end. *)
RECURSIVE Concat(_)
Concat(texts) ==
    IF texts = <<>> THEN <<>>
    ELSE IF Len(texts) = 1 THEN texts[1]
    ELSE Concat(SubSeq(texts, 1, Len(texts) \div 2))
         \o Concat(SubSeq(texts, (Len(texts) \div 2) + 1, Len(texts)))

(* repr(s) for a str: in single quotes (39), or in double quotes (34) when   *)
(* it holds a single quote and no double quote.                              *)
StrRepr(s) ==
    Bind(IF (\E i \in 1..Len(s) : s[i] = 39) /\ ~(\E i \in 1..Len(s) : s[i] = 34)
         THEN 34 ELSE 39,
         LAMBDA quote :
             <<quote>> \o Concat([i \in 1..Len(s) |-> CharRepr(s[i], quote)]) \o <<quote>>)

(* The first of the outcomes rs that is an exception, if there is one. *)
FirstRaised(rs) ==
    CHOOSE i \in 1..Len(rs) : rs[i].err # "none" /\ \A j \in 1..(i - 1) : rs[j].err = "none"

(* The texts ts with ", " between them. *)
CommaJoin(ts) == Concat([i \in 1..Len(ts) |-> (IF i > 1 THEN <<44, 32>> ELSE <<>>) \o ts[i]])

(* repr(v): a list and a dict write the repr() of what they hold, a dict in  *)
(* the order its keys were set; the first item whose repr() raises ends it.  *)
RECURSIVE repr(_)
repr(v) ==
    CASE v.kind = "none" -> Return(StrV(<<78, 111, 110, 101>>))
      [] v.kind = "str" -> Return(StrV(StrRepr(v.s)))
      [] v.kind = "int" -> IntRepr(v)
      [] v.kind = "float" -> Return(StrV(FloatRepr(v)))
      [] v.kind = "list" ->
             Bind([i \in 1..Len(v.items) |-> repr(v.items[i])], LAMBDA rs :
                 IF \E i \in 1..Len(rs) : rs[i].err # "none" THEN rs[FirstRaised(rs)]
                 ELSE Return(StrV(<<91>>
                                  \o CommaJoin([i \in 1..Len(rs) |-> rs[i].val.s])
                                  \o <<93>>)))
      [] v.kind = "dict" ->
             Bind([i \in 1..Len(v.entries) |-> repr(v.entries[i].value)], LAMBDA rs :
                 IF \E i \in 1..Len(rs) : rs[i].err # "none" THEN rs[FirstRaised(rs)]
                 ELSE Return(StrV(<<123>>
                                  \o CommaJoin([i \in 1..Len(rs) |->
                                                    StrRepr(v.entries[i].key) \o <<58, 32>>
                                                    \o rs[i].val.s])
                                  \o <<125>>)))

(* str(v): a str is its own, anything else is written as repr() writes it. *)
str(v) == IF v.kind = "str" THEN Return(v) ELSE repr(v)

-----------------------------------------------------------------------------
(* Subscripts *)

EmptyDict == DictV(<<>>)

(* k in d *)
HasKey(d, k) == \E i \in 1..Len(d.entries) : d.entries[i].key = k

(* d[k] = v: a key already set keeps its place *)
SetItem(d, k, v) ==
    IF HasKey(d, k)
    THEN DictV([i \in 1..Len(d.entries) |->
                   IF d.entries[i].key = k THEN Entry(k, v) ELSE d.entries[i]])
    ELSE DictV(Append(d.entries, Entry(k, v)))

(* v[k] for a str k: the value of the key in a dict; nothing else takes a   *)
(* str for subscript.                                                       *)
GetItem(v, k) ==
    IF v.kind # "dict" THEN Raise("TypeError")
    ELSE IF HasKey(v, k)
    THEN Return(v.entries[CHOOSE i \in 1..Len(v.entries) : v.entries[i].key = k].value)
    ELSE Raise("KeyError")

(* v[i] for an int i: an item of a list or a character of a str, counted    *)
(* from the end for i < 0; a dict has no int among its keys.                *)
GetIndex(v, i) ==
    IF v.kind = "list"
    THEN (IF i >= 0 /\ i < Len(v.items) THEN Return(v.items[i + 1])
          ELSE IF i < 0 /\ 0 - i <= Len(v.items) THEN Return(v.items[Len(v.items) + i + 1])
          ELSE Raise("IndexError"))
    ELSE IF v.kind = "str"
    THEN (IF i >= 0 /\ i < Len(v.s) THEN Return(StrV(<<v.s[i + 1]>>))
          ELSE IF i < 0 /\ 0 - i <= Len(v.s) THEN Return(StrV(<<v.s[Len(v.s) + i + 1]>>))
          ELSE Raise("IndexError"))
    ELSE IF v.kind = "dict" THEN Raise("KeyError")
    ELSE Raise("TypeError")

(* header[k1][i][k2][0][k3], the first subscript that fails deciding *)
GetNested(header, k1, i, k2, k3) ==
    Bind(GetItem(header, k1), LAMBDA a :
        IF a.err # "none" THEN a
        ELSE Bind(GetIndex(a.val, i), LAMBDA b :
            IF b.err # "none" THEN b
            ELSE Bind(GetItem(b.val, k2), LAMBDA c :
                IF c.err # "none" THEN c
                ELSE Bind(GetIndex(c.val, 0), LAMBDA d :
                    IF d.err # "none" THEN d ELSE GetItem(d.val, k3)))))

-----------------------------------------------------------------------------
(* The field extractors *)

(* "PerFrameFunctionalGroupsSequence" *)
PerFrameFunctionalGroupsSequence ==
    <<80, 101, 114, 70, 114, 97, 109, 101, 70, 117, 110, 99, 116, 105, 111,
      110, 97, 108, 71, 114, 111, 117, 112, 115, 83, 101, 113, 117, 101, 110,
      99, 101>>

(* "CardiacSynchronizationSequence" *)
CardiacSynchronizationSequence ==
    <<67, 97, 114, 100, 105, 97, 99, 83, 121, 110, 99, 104, 114, 111, 110,
      105, 122, 97, 116, 105, 111, 110, 83, 101, 113, 117, 101, 110, 99, 101>>

(* "RRIntervalTimeNominal" *)
RRIntervalTimeNominal ==
    <<82, 82, 73, 110, 116, 101, 114, 118, 97, 108, 84, 105, 109, 101, 78,
      111, 109, 105, 110, 97, 108>>

(* "NominalInterval" *)
NominalInterval ==
    <<78, 111, 109, 105, 110, 97, 108, 73, 110, 116, 101, 114, 118, 97, 108>>

(* "FrameContentSequence" *)
FrameContentSequence ==
    <<70, 114, 97, 109, 101, 67, 111, 110, 116, 101, 110, 116, 83, 101, 113,
      117, 101, 110, 99, 101>>

(* "FrameAcquisitionDateTime" *)
FrameAcquisitionDateTime ==
    <<70, 114, 97, 109, 101, 65, 99, 113, 117, 105, 115, 105, 116, 105, 111,
      110, 68, 97, 116, 101, 84, 105, 109, 101>>

(* "AcquisitionTime" *)
AcquisitionTime ==
    <<65, 99, 113, 117, 105, 115, 105, 116, 105, 111, 110, 84, 105, 109, 101>>

(* "AcquisitionDate" *)
AcquisitionDate ==
    <<65, 99, 113, 117, 105, 115, 105, 116, 105, 111, 110, 68, 97, 116, 101>>

(* "SeriesDescription" *)
SeriesDescription ==
    <<83, 101, 114, 105, 101, 115, 68, 101, 115, 99, 114, 105, 112, 116, 105,
      111, 110>>

SeriesDate == <<83, 101, 114, 105, 101, 115, 68, 97, 116, 101>>  \* "SeriesDate"

StudyTime == <<83, 116, 117, 100, 121, 84, 105, 109, 101>>  \* "StudyTime"

SeriesNumber == <<83, 101, 114, 105, 101, 115, 78, 117, 109, 98, 101, 114>>  \* "SeriesNumber"

(* "DiffusionBValue" *)
DiffusionBValue ==
    <<68, 105, 102, 102, 117, 115, 105, 111, 110, 66, 86, 97, 108, 117, 101>>

(* "DiffusionGradientDirection" *)
DiffusionGradientDirection ==
    <<68, 105, 102, 102, 117, 115, 105, 111, 110, 71, 114, 97, 100, 105, 101,
      110, 116, 68, 105, 114, 101, 99, 116, 105, 111, 110>>

(* Mutant: the time cut one character late. *)
Slice8From_Nine(v) ==
    IF v.kind = "str" THEN Return(StrV(SliceFrom(v.s, 9)))
    ELSE IF v.kind = "list" THEN Return(ListV(SliceFrom(v.items, 9)))
    ELSE Raise("TypeError")

(* v[8:]: of a str or a list; a dict takes no slice for key, and nothing    *)
(* else takes a subscript.                                                  *)
Slice8From(v) ==
    IF v.kind = "str" THEN Return(StrV(SliceFrom(v.s, 8)))
    ELSE IF v.kind = "list" THEN Return(ListV(SliceFrom(v.items, 8)))
    ELSE Raise("TypeError")

(* v[:8] *)
Slice8To(v) ==
    IF v.kind = "str" THEN Return(StrV(SliceTo(v.s, 8)))
    ELSE IF v.kind = "list" THEN Return(ListV(SliceTo(v.items, 8)))
    ELSE Raise("TypeError")

(* Mutant: a missing field read as None instead of raising. *)
get_nominal_interval_Absent(header, type, frame) ==
    IF type = 2 THEN
        IF HasKey(header, PerFrameFunctionalGroupsSequence)
        THEN Bind(GetNested(header, PerFrameFunctionalGroupsSequence, frame,
                            CardiacSynchronizationSequence, RRIntervalTimeNominal),
                  LAMBDA v : IF v.err = "none" THEN float(v.val) ELSE v)
        ELSE Return(None)
    ELSE IF type = 1 THEN
        IF HasKey(header, NominalInterval)
        THEN float(GetItem(header, NominalInterval).val)
        ELSE Return(None)
    ELSE Return(None)

get_nominal_interval(header, type, frame) ==
    IF type = 2 THEN
        Bind(GetNested(header, PerFrameFunctionalGroupsSequence, frame,
                       CardiacSynchronizationSequence, RRIntervalTimeNominal),
             LAMBDA v : IF v.err = "none" THEN float(v.val) ELSE v)
    ELSE IF type = 1 THEN
        Bind(GetItem(header, NominalInterval),
             LAMBDA v : IF v.err = "none" THEN float(v.val) ELSE v)
    ELSE Return(None)

get_acquisition_time(header, type, frame) ==
    IF type = 2 THEN
        Bind(GetNested(header, PerFrameFunctionalGroupsSequence, frame,
                       FrameContentSequence, FrameAcquisitionDateTime),
             LAMBDA v : IF v.err = "none" THEN Slice8From(v.val) ELSE v)
    ELSE IF type = 1 THEN GetItem(header, AcquisitionTime)
    ELSE Return(None)

get_acquisition_date(header, type, frame) ==
    IF type = 2 THEN
        Bind(GetNested(header, PerFrameFunctionalGroupsSequence, frame,
                       FrameContentSequence, FrameAcquisitionDateTime),
             LAMBDA v : IF v.err = "none" THEN Slice8To(v.val) ELSE v)
    ELSE IF type = 1 THEN GetItem(header, AcquisitionDate)
    ELSE Return(None)

(* The suffix from the four values looked up: the rounded time and the      *)
(* series number written by str(), the spaces (32) replaced by "_" (95); a   *)
(* str() that raises ends it.                                                *)
JoinSuffix(desc, date, seconds, number) ==
    IF str(seconds).err # "none" THEN str(seconds)
    ELSE IF str(number).err # "none" THEN str(number)
    ELSE Return(StrV(replace(desc.s \o <<95>> \o date.s \o str(seconds).val.s
                             \o <<95>> \o str(number).val.s, 32, 95)))

(* SeriesDescription + "_" + SeriesDate + str(round(float(StudyTime))) + "_"  *)
(* + str(SeriesNumber) with its spaces replaced.  The operands are evaluated  *)
(* left to right, so the first lookup, "+", float(), round() or str() that    *)
(* fails decides the exception; only a str can be joined to a str.            *)
BuildSuffix(header) ==
    IF GetItem(header, SeriesDescription).err # "none" THEN GetItem(header, SeriesDescription)
    ELSE IF GetItem(header, SeriesDescription).val.kind # "str" THEN Raise("TypeError")
    ELSE IF GetItem(header, SeriesDate).err # "none" THEN GetItem(header, SeriesDate)
    ELSE IF GetItem(header, SeriesDate).val.kind # "str" THEN Raise("TypeError")
    ELSE IF GetItem(header, StudyTime).err # "none" THEN GetItem(header, StudyTime)
    ELSE Bind(float(GetItem(header, StudyTime).val), LAMBDA x :
             IF x.err # "none" THEN x
             ELSE Bind(round(x.val), LAMBDA seconds :
                      IF seconds.err # "none" THEN seconds
                      ELSE IF str(seconds.val).err # "none" THEN str(seconds.val)
                      ELSE IF GetItem(header, SeriesNumber).err # "none"
                      THEN GetItem(header, SeriesNumber)
                      ELSE JoinSuffix(GetItem(header, SeriesDescription).val,
                                      GetItem(header, SeriesDate).val,
                                      seconds.val,
                                      GetItem(header, SeriesNumber).val)))

get_nii_file_suffix(header, type, frame) ==
    IF type = 2 THEN BuildSuffix(header)
    ELSE IF type = 1 THEN BuildSuffix(header)
    ELSE Return(None)

-----------------------------------------------------------------------------
(* pydicom Datasets and dictify *)

Elem(tag, vr, keyword, value) == [tag |-> tag, VR |-> vr, keyword |-> keyword, value |-> value]

DiffusionBValueTag == <<25, 4108>>             \* (0019,100C)

DiffusionGradientDirectionTag == <<25, 4110>>  \* (0019,100E)

(* tag in ds *)
HasTag(ds, tag) == \E i \in 1..Len(ds) : ds[i].tag = tag

(* ds[tag].value, for a tag in ds *)
TagValue(ds, tag) == ds[CHOOSE i \in 1..Len(ds) : ds[i].tag = tag].value

(* keyword in ds, for a public keyword *)
HasKeyword(ds, keyword) == \E i \in 1..Len(ds) : ds[i].keyword = keyword

(* ds.<keyword>, for a keyword in ds *)
KeywordValue(ds, keyword) == ds[CHOOSE i \in 1..Len(ds) : ds[i].keyword = keyword].value

RECURSIVE dictify(_), dictifyLoop(_, _)
(* the loop "for elem in ds" after its first k elements *)
dictifyLoop(ds, k) ==
    IF k = 0 THEN EmptyDict
    ELSE Bind(dictifyLoop(ds, k - 1), LAMBDA output :
             IF ds[k].VR # "SQ" THEN SetItem(output, ds[k].keyword, ds[k].value)
             ELSE SetItem(output, ds[k].keyword,
                          ListV([i \in 1..Len(ds[k].value.items) |->
                                    dictify(ds[k].value.items[i])])))

(* the first private field added, if present *)
AddBValue(ds, output) ==
    IF HasTag(ds, DiffusionBValueTag)
    THEN SetItem(output, DiffusionBValue, TagValue(ds, DiffusionBValueTag))
    ELSE output

(* the second private field added, if present *)
AddGradientDirection(ds, output) ==
    IF HasTag(ds, DiffusionGradientDirectionTag)
    THEN SetItem(output, DiffusionGradientDirection,
                 TagValue(ds, DiffusionGradientDirectionTag))
    ELSE output

dictify(ds) ==
    Bind(dictifyLoop(ds, Len(ds)), LAMBDA output :
        Bind(AddBValue(ds, output), LAMBDA o1 : AddGradientDirection(ds, o1)))

-----------------------------------------------------------------------------
(* Input data: texts, datasets and files *)

DTI_SAX == <<68, 84, 73, 32, 83, 65, 88>>  \* "DTI SAX"

DTI == <<68, 84, 73>>  \* "DTI"

Date0101 == <<50, 48, 50, 51, 48, 49, 48, 49>>  \* "20230101"

Date0102 == <<50, 48, 50, 51, 48, 49, 48, 50>>  \* "20230102"

Time090000 == <<48, 57, 48, 48, 48, 48>>  \* "090000"

Time143020 == <<49, 52, 51, 48, 50, 48>>  \* "143020"

Time143021 == <<49, 52, 51, 48, 50, 49>>  \* "143021"

Time143022 == <<49, 52, 51, 48, 50, 50>>  \* "143022"

Time143025 == <<49, 52, 51, 48, 50, 53>>  \* "143025"

StudyTime143022_5 == <<49, 52, 51, 48, 50, 50, 46, 53>>  \* "143022.5"

StudyTime143023_5 == <<49, 52, 51, 48, 50, 51, 46, 53>>  \* "143023.5"

StudyTime093022_4 == <<48, 57, 51, 48, 50, 50, 46, 52>>  \* "093022.4"

StudyTime143022_6 == <<49, 52, 51, 48, 50, 50, 46, 54>>  \* "143022.6"

Time143025_5 == <<49, 52, 51, 48, 50, 53, 46, 53>>  \* "143025.5"

StudyTime143022 == <<49, 52, 51, 48, 50, 50>>  \* "143022"

Text850 == <<56, 53, 48>>  \* "850"

Text850_5 == <<56, 53, 48, 46, 53>>  \* "850.5"

StudyTime143022_5_Padded == <<49, 52, 51, 48, 50, 50, 46, 53, 32>>  \* "143022.5 "

StudyTime143023_5_Exp == <<43, 49, 46, 52, 51, 48, 50, 51, 53, 69, 53>>  \* "+1.430235E5"

Text850_Spaced == <<32, 56, 53, 48>>  \* " 850"

Text8_5e2 == <<56, 46, 53, 101, 50>>  \* "8.5e2"

Text1_000 == <<49, 95, 48, 48, 48>>  \* "1_000"

TextInf == <<105, 110, 102>>  \* "inf"

(* 850 in Arabic-Indic digits *)
Text850_ArabicIndic == <<1640, 1637, 1632>>

(* 850.5 and a little that no double holds *)
(* "850.50000000000000001" *)
Text850_5_Long ==
    <<56, 53, 48, 46, 53, 48, 48, 48, 48, 48, 48, 48, 48, 48, 48, 48, 48, 48,
      48, 48, 49>>

DcmSuffix == <<46, 100, 99, 109>>  \* ".dcm"

Float850 == FloatV(1, <<8, 5>>, 3)             \* 850.0

Float850_5 == FloatV(1, <<8, 5, 0, 5>>, 3)     \* 850.5

Float851 == FloatV(1, <<8, 5, 1>>, 3)          \* 851.0

Float900 == FloatV(1, <<9>>, 3)                \* 900.0

Float910 == FloatV(1, <<9, 1>>, 3)             \* 910.0

Float0_5 == FloatV(1, <<5>>, 0)                \* 0.5

(* A single-frame (legacy) dataset, in tag order. *)
LegacyDataset(desc, sdate, stime, snum, adate, atime, ni) ==
    << Elem(<<8, 33>>, "DA", SeriesDate, StrV(sdate)),
       Elem(<<8, 34>>, "DA", AcquisitionDate, StrV(adate)),
       Elem(<<8, 48>>, "TM", StudyTime, StrV(stime)),
       Elem(<<8, 50>>, "TM", AcquisitionTime, StrV(atime)),
       Elem(<<8, 4158>>, "LO", SeriesDescription, StrV(desc)),
       Elem(<<24, 4194>>, "IS", NominalInterval, ni),
       Elem(<<32, 17>>, "IS", SeriesNumber, IntV(snum)) >>

(* One item of PerFrameFunctionalGroupsSequence. *)
FrameItem(datetime, rr) ==
    << Elem(<<24, 37144>>, "SQ", CardiacSynchronizationSequence,
            ListV(<< << Elem(<<32, 37457>>, "FD", RRIntervalTimeNominal, rr) >> >>)),
       Elem(<<32, 37137>>, "SQ", FrameContentSequence,
            ListV(<< << Elem(<<24, 36980>>, "DT", FrameAcquisitionDateTime,
                             StrV(datetime)) >> >>)) >>

(* A multi-frame (modern) dataset, in tag order. *)
ModernDataset(desc, sdate, stime, snum, frames) ==
    << Elem(<<8, 33>>, "DA", SeriesDate, StrV(sdate)),
       Elem(<<8, 48>>, "TM", StudyTime, StrV(stime)),
       Elem(<<8, 4158>>, "LO", SeriesDescription, StrV(desc)),
       Elem(<<32, 17>>, "IS", SeriesNumber, IntV(snum)),
       Elem(<<20992, 37424>>, "SQ", PerFrameFunctionalGroupsSequence, ListV(frames)) >>

(* ds without its element of the given keyword *)
Without(ds, keyword) == SelectSeq(ds, LAMBDA e : e.keyword # keyword)

(* ds with the private Siemens elements (0019,0010), (0019,100C), (0019,100E), *)
(* put at their place in tag order; a private element has no keyword          *)
WithPrivate(ds, creator, bvalue, direction) ==
    SelectSeq(ds, LAMBDA e : e.tag[1] < 25)
    \o << Elem(<<25, 16>>, "LO", <<>>, StrV(creator)),
          Elem(DiffusionBValueTag, "IS", <<>>, IntV(bvalue)),
          Elem(DiffusionGradientDirectionTag, "FD", <<>>, direction) >>
    \o SelectSeq(ds, LAMBDA e : e.tag[1] >= 25)

File(ds) == [readable |-> TRUE, ds |-> ds]

Unreadable == [readable |-> FALSE, ds |-> <<>>]

(* The legacy header of the worked example. *)
ScenarioLegacy ==
    LegacyDataset(DTI_SAX, Date0101, StudyTime143022_5, 7, Date0101, Time143025, IntV(850))

(* The file contents a directory may hold. *)
Samples ==
    { File(ScenarioLegacy),
      File(WithPrivate(
          LegacyDataset(DTI_SAX, Date0101, StudyTime143023_5, 7, Date0102, Time090000,
                        IntV(900)), DTI, 350, Float0_5)),
      File(LegacyDataset(DTI, Date0101, StudyTime093022_4, 12, Date0101, Time143025,
                         IntV(875))),
      File(Without(ScenarioLegacy, NominalInterval)),
      File(ModernDataset(DTI_SAX, Date0101, StudyTime143022_6, 7,
                         << FrameItem(Date0101 \o Time143020, Float850),
                            FrameItem(Date0101 \o Time143021, Float850_5),
                            FrameItem(Date0101 \o Time143022, Float851) >>)),
      File(ModernDataset(DTI_SAX, Date0101, StudyTime143022_5, 8,
                         << FrameItem(Date0102 \o Time090000, Float900),
                            FrameItem(Date0101 \o Time143021, Float910) >>)),
      File(ModernDataset(DTI, Date0101, StudyTime143023_5, 9,
                         << FrameItem(Date0101 \o Time143025, Float850) >>)),
      File(ModernDataset(DTI, Date0101, StudyTime143022_5, 10, << >>)),
      Unreadable }

-----------------------------------------------------------------------------
(* get_data_from_dicoms_and_export *)

MaxFiles == 3

(* The base name of file i. *)
FileName(i) == IntToStr(i) \o DcmSuffix

(* The row appended for one frame. *)
Row(file_name, ni, atime, adate, suffix) ==
    [file_name |-> file_name, nominal_interval |-> ni, acquisition_time |-> atime,
     acquisition_date |-> adate, nii_file_suffix |-> suffix]

(* list.sort() of the paths globbed: insertion of each path after the paths *)
(* not greater than it.                                                      *)
RECURSIVE SortFiles(_)
SortFiles(files) ==
    IF files = <<>> THEN <<>>
    ELSE Bind(SortFiles(SubSeq(files, 1, Len(files) - 1)), LAMBDA rest :
             Bind(Cardinality({i \in 1..Len(rest) :
                                  ~StrLess(FileName(files[Len(files)]), FileName(rest[i]))}),
                  LAMBDA k : SubSeq(rest, 1, k) \o <<files[Len(files)]>>
                                 \o SubSeq(rest, k + 1, Len(rest))))

(* The orders in which glob may list the directory. *)
GlobOrders(files) ==
    {p \in [1..Cardinality(files) -> files] : \A i, j \in DOMAIN p : p[i] = p[j] => i = j}

(* Mutant: every file taken to hold one image. *)
Classification_SingleImage(ds) ==
    IF HasKeyword(ds, PerFrameFunctionalGroupsSequence) THEN <<2, 1>> ELSE <<1, 1>>

(* dicom_type and n_images_per_file, from the first dataset read *)
Classification(ds) ==
    IF HasKeyword(ds, PerFrameFunctionalGroupsSequence)
    THEN <<2, Len(KeywordValue(ds, PerFrameFunctionalGroupsSequence).items)>>
    ELSE <<1, 1>>

(* Mutant: the inner loop runs over the frames of the current file. *)
FrameRange_PerFile ==
    IF HasKey(c_dicom_header, PerFrameFunctionalGroupsSequence)
    THEN 0..(Len(GetItem(c_dicom_header, PerFrameFunctionalGroupsSequence).val.items) - 1)
    ELSE 0..0

(* range(n_images_per_file): the frames the inner loop visits *)
FrameRange == 0..(n_images_per_file - 1)

(* Mutant: the sort keys in the other order. *)
RowLess_TimeFirst(a, b) ==
    \/ StrLess(a.acquisition_time.s, b.acquisition_time.s)
    \/ /\ a.acquisition_time.s = b.acquisition_time.s
       /\ StrLess(a.acquisition_date.s, b.acquisition_date.s)

(* The sort key order of df.sort_values(by=[acquisition_date, acquisition_time]) *)
RowLess(a, b) ==
    \/ StrLess(a.acquisition_date.s, b.acquisition_date.s)
    \/ /\ a.acquisition_date.s = b.acquisition_date.s
       /\ StrLess(a.acquisition_time.s, b.acquisition_time.s)

(* sort_values on several columns is a stable sort: each row goes after the *)
(* rows already placed whose key is not greater than its own.               *)
RECURSIVE sort_values(_)
sort_values(rows) ==
    IF rows = <<>> THEN <<>>
    ELSE Bind(sort_values(SubSeq(rows, 1, Len(rows) - 1)), LAMBDA rest :
             Bind(Cardinality({i \in 1..Len(rest) : ~RowLess(rows[Len(rows)], rest[i])}),
                  LAMBDA k : SubSeq(rest, 1, k) \o <<rows[Len(rows)]>>
                                 \o SubSeq(rest, k + 1, Len(rest))))

(* The four extractor calls of one frame, in the order of the tuple. *)
ExtractRow(file, header, type, frame) ==
    Bind(<<get_nominal_interval(header, type, frame),
           get_acquisition_time(header, type, frame),
           get_acquisition_date(header, type, frame),
           get_nii_file_suffix(header, type, frame)>>,
         LAMBDA r :
             IF r[1].err # "none" THEN r[1]
             ELSE IF r[2].err # "none" THEN r[2]
             ELSE IF r[3].err # "none" THEN r[3]
             ELSE IF r[4].err # "none" THEN r[4]
             ELSE Return(Row(StrV(FileName(file)), r[1].val, r[2].val, r[3].val, r[4].val)))

HarnessIdle ==
    /\ h_in = <<>>
    /\ h_pc = {}
    /\ h_legacy = Return(None)
    /\ h_modern = Return(None)

Init ==
    /\ \E n \in 0..MaxFiles : disk \in [1..n -> Samples]
    /\ pc = "start"
    /\ error = "none"
    /\ converter = "none"
    /\ converter_calls = 0
    /\ dicom_files = <<>>
    /\ dicom_type = 0
    /\ n_images_per_file = 0
    /\ idx = 0
    /\ frame_idx = 0
    /\ c_dicom_header = EmptyDict
    /\ df = <<>>
    /\ calls = <<>>
    /\ csv = <<>>
    /\ csv_writes = 0
    /\ HarnessIdle

Abort(e) ==
    /\ pc' = "aborted"
    /\ error' = e

(* Mutant: a failed command ends the run. *)
RunConverter_CheckExit ==
    /\ pc = "start"
    /\ \E outcome \in {"ok", "failed"} :
           /\ converter' = outcome
           /\ IF outcome = "ok" THEN pc' = "list" /\ error' = error
              ELSE Abort("CalledProcessError")
    /\ converter_calls' = converter_calls + 1
    /\ UNCHANGED <<disk, dicom_files, dicom_type, n_images_per_file, idx,
                   frame_idx, c_dicom_header, df, calls, csv, csv_writes>>
    /\ UNCHANGED harness_vars

(* os.system(run_command): the command runs once and its exit status is dropped. *)
RunConverter ==
    /\ pc = "start"
    /\ \E outcome \in {"ok", "failed"} : converter' = outcome
    /\ converter_calls' = converter_calls + 1
    /\ pc' = "list"
    /\ UNCHANGED <<disk, error, dicom_files, dicom_type, n_images_per_file, idx,
                   frame_idx, c_dicom_header, df, calls, csv, csv_writes>>
    /\ UNCHANGED harness_vars

(* glob.glob(...) and dicom_files.sort() *)
ListFiles ==
    /\ pc = "list"
    /\ \E order \in GlobOrders(DOMAIN disk) : dicom_files' = SortFiles(order)
    /\ pc' = "classify"
    /\ UNCHANGED <<disk, error, converter, converter_calls, dicom_type,
                   n_images_per_file, idx, frame_idx, c_dicom_header, df, calls, csv,
                   csv_writes>>
    /\ UNCHANGED harness_vars

(* dicom_files[0] of an empty list *)
ClassifyNoFiles ==
    /\ pc = "classify"
    /\ dicom_files = <<>>
    /\ Abort("IndexError")
    /\ UNCHANGED <<disk, converter, converter_calls, dicom_files, dicom_type,
                   n_images_per_file, idx, frame_idx, c_dicom_header, df, calls, csv,
                   csv_writes>>
    /\ UNCHANGED harness_vars

(* pydicom.dcmread of a first file that is no DICOM file *)
ClassifyUnreadable ==
    /\ pc = "classify"
    /\ dicom_files # <<>>
    /\ ~disk[dicom_files[1]].readable
    /\ Abort("InvalidDicomError")
    /\ UNCHANGED <<disk, converter, converter_calls, dicom_files, dicom_type,
                   n_images_per_file, idx, frame_idx, c_dicom_header, df, calls, csv,
                   csv_writes>>
    /\ UNCHANGED harness_vars

Classify ==
    /\ pc = "classify"
    /\ dicom_files # <<>>
    /\ disk[dicom_files[1]].readable
    /\ dicom_type' = Classification(disk[dicom_files[1]].ds)[1]
    /\ n_images_per_file' = Classification(disk[dicom_files[1]].ds)[2]
    /\ pc' = "files"
    /\ UNCHANGED <<disk, error, converter, converter_calls, dicom_files, idx, frame_idx,
                   c_dicom_header, df, calls, csv, csv_writes>>
    /\ UNCHANGED harness_vars

(* Mutant: the layout is classified again from every file read. *)
ReadFile_Reclassify ==
    /\ pc = "files"
    /\ idx < Len(dicom_files)
    /\ disk[dicom_files[idx + 1]].readable
    /\ c_dicom_header' = dictify(disk[dicom_files[idx + 1]].ds)
    /\ dicom_type' = Classification(disk[dicom_files[idx + 1]].ds)[1]
    /\ n_images_per_file' = Classification(disk[dicom_files[idx + 1]].ds)[2]
    /\ frame_idx' = 0
    /\ pc' = "frames"
    /\ UNCHANGED <<disk, error, converter, converter_calls, dicom_files, idx, df, calls,
                   csv, csv_writes>>
    /\ UNCHANGED harness_vars

(* The outer loop reads the next file and flattens its header. *)
ReadFile ==
    /\ pc = "files"
    /\ idx < Len(dicom_files)
    /\ disk[dicom_files[idx + 1]].readable
    /\ c_dicom_header' = dictify(disk[dicom_files[idx + 1]].ds)
    /\ frame_idx' = 0
    /\ pc' = "frames"
    /\ UNCHANGED <<disk, error, converter, converter_calls, dicom_files, dicom_type,
                   n_images_per_file, idx, df, calls, csv, csv_writes>>
    /\ UNCHANGED harness_vars

ReadFileUnreadable ==
    /\ pc = "files"
    /\ idx < Len(dicom_files)
    /\ ~disk[dicom_files[idx + 1]].readable
    /\ Abort("InvalidDicomError")
    /\ UNCHANGED <<disk, converter, converter_calls, dicom_files, dicom_type,
                   n_images_per_file, idx, frame_idx, c_dicom_header, df, calls, csv,
                   csv_writes>>
    /\ UNCHANGED harness_vars

(* One pass of the inner loop: the four calls succeed and the row is appended. *)
ExtractFrame ==
    /\ pc = "frames"
    /\ frame_idx \in FrameRange
    /\ \E r \in {ExtractRow(dicom_files[idx + 1], c_dicom_header, dicom_type, frame_idx)} :
           /\ r.err = "none"
           /\ df' = Append(df, r.val)
    /\ calls' = Append(calls, <<dicom_files[idx + 1], dicom_type, frame_idx>>)
    /\ frame_idx' = frame_idx + 1
    /\ UNCHANGED <<disk, pc, error, converter, converter_calls, dicom_files, dicom_type,
                   n_images_per_file, idx, c_dicom_header, csv, csv_writes>>
    /\ UNCHANGED harness_vars

(* Mutant: a frame whose extraction raises is skipped. *)
ExtractFrameFails_SkipFrame ==
    /\ pc = "frames"
    /\ frame_idx \in FrameRange
    /\ ExtractRow(dicom_files[idx + 1], c_dicom_header, dicom_type, frame_idx).err # "none"
    /\ calls' = Append(calls, <<dicom_files[idx + 1], dicom_type, frame_idx>>)
    /\ frame_idx' = frame_idx + 1
    /\ UNCHANGED <<disk, pc, error, converter, converter_calls, dicom_files, dicom_type,
                   n_images_per_file, idx, c_dicom_header, df, csv, csv_writes>>
    /\ UNCHANGED harness_vars

(* One pass of the inner loop: a call raises and the exception ends the run. *)
ExtractFrameFails ==
    /\ pc = "frames"
    /\ frame_idx \in FrameRange
    /\ \E r \in {ExtractRow(dicom_files[idx + 1], c_dicom_header, dicom_type, frame_idx)} :
           /\ r.err # "none"
           /\ Abort(r.err)
    /\ calls' = Append(calls, <<dicom_files[idx + 1], dicom_type, frame_idx>>)
    /\ UNCHANGED <<disk, converter, converter_calls, dicom_files, dicom_type,
                   n_images_per_file, idx, frame_idx, c_dicom_header, df, csv, csv_writes>>
    /\ UNCHANGED harness_vars

(* The inner loop is exhausted: on to the next file. *)
NextFile ==
    /\ pc = "frames"
    /\ frame_idx \notin FrameRange
    /\ idx' = idx + 1
    /\ pc' = "files"
    /\ UNCHANGED <<disk, error, converter, converter_calls, dicom_files, dicom_type,
                   n_images_per_file, frame_idx, c_dicom_header, df, calls, csv,
                   csv_writes>>
    /\ UNCHANGED harness_vars

(* pd.DataFrame, sort_values and to_csv *)
Export ==
    /\ pc = "files"
    /\ idx = Len(dicom_files)
    /\ csv' = sort_values(df)
    /\ csv_writes' = csv_writes + 1
    /\ pc' = "done"
    /\ UNCHANGED <<disk, error, converter, converter_calls, dicom_files, dicom_type,
                   n_images_per_file, idx, frame_idx, c_dicom_header, df, calls>>
    /\ UNCHANGED harness_vars

Next ==
    \/ RunConverter
    \/ ListFiles
    \/ ClassifyNoFiles
    \/ ClassifyUnreadable
    \/ Classify
    \/ ReadFile
    \/ ReadFileUnreadable
    \/ ExtractFrame
    \/ ExtractFrameFails
    \/ NextFile
    \/ Export

Spec == Init /\ [][Next]_vars

-----------------------------------------------------------------------------
(* The extractors applied to one image described in both layouts *)

(* A StudyTime text with the number it writes, n/d. *)
StudyTimes ==
    { [text |-> StudyTime143022_5, n |-> 1430225, d |-> 10],
      [text |-> StudyTime143023_5, n |-> 1430235, d |-> 10],
      [text |-> StudyTime093022_4, n |-> 930224, d |-> 10],
      [text |-> StudyTime143022_6, n |-> 1430226, d |-> 10],
      [text |-> StudyTime143022, n |-> 143022, d |-> 1],
      [text |-> StudyTime143022_5_Padded, n |-> 1430225, d |-> 10],
      [text |-> StudyTime143023_5_Exp, n |-> 1430235, d |-> 10] }

HarnessInputs ==
    [desc : {DTI_SAX, DTI}, sdate : {Date0101, Date0102}, stime : StudyTimes,
     snum : {7, 12}, adate : {Date0101, Date0102},
     atime : {Time143025, Time090000, Time143025_5},
     ni : {IntV(850), StrV(Text850), StrV(Text850_5), StrV(Text850_Spaced),
           StrV(Text8_5e2), StrV(Text1_000), StrV(TextInf)}]
    \cup [desc : {DTI_SAX}, sdate : {Date0101}, stime : StudyTimes, snum : {7},
          adate : {Date0102}, atime : {Time143025_5},
          ni : {StrV(Text850_ArabicIndic), StrV(Text850_5_Long), Float850_5}]

(* The image as a legacy file. *)
HarnessLegacy(in) ==
    LegacyDataset(in.desc, in.sdate, in.stime.text, in.snum, in.adate, in.atime, in.ni)

(* The same image as the only frame of a modern file. *)
HarnessModern(in) ==
    ModernDataset(in.desc, in.sdate, in.stime.text, in.snum,
                  << FrameItem(in.adate \o in.atime, float(in.ni).val) >>)

RunIdle ==
    /\ disk = <<>>
    /\ pc = "off"
    /\ error = "none"
    /\ converter = "none"
    /\ converter_calls = 0
    /\ dicom_files = <<>>
    /\ dicom_type = 0
    /\ n_images_per_file = 0
    /\ idx = 0
    /\ frame_idx = 0
    /\ c_dicom_header = EmptyDict
    /\ df = <<>>
    /\ calls = <<>>
    /\ csv = <<>>
    /\ csv_writes = 0

InitExtract ==
    /\ RunIdle
    /\ h_in \in HarnessInputs
    /\ h_pc = {}
    /\ h_legacy = Return(None)
    /\ h_modern = Return(None)

(* The four extractors on the legacy file, dicom_type 1. *)
ExtractLegacy ==
    /\ "legacy" \notin h_pc
    /\ h_legacy' = ExtractRow(1, dictify(HarnessLegacy(h_in)), 1, 0)
    /\ h_pc' = h_pc \cup {"legacy"}
    /\ UNCHANGED <<h_in, h_modern>>
    /\ UNCHANGED run_vars

(* The four extractors on the modern file, dicom_type 2 and frame 0. *)
ExtractModern ==
    /\ "modern" \notin h_pc
    /\ h_modern' = ExtractRow(1, dictify(HarnessModern(h_in)), 2, 0)
    /\ h_pc' = h_pc \cup {"modern"}
    /\ UNCHANGED <<h_in, h_legacy>>
    /\ UNCHANGED run_vars

NextExtract ==
    \/ ExtractLegacy
    \/ ExtractModern

SpecExtract == InitExtract /\ [][NextExtract]_vars

-----------------------------------------------------------------------------
(* Vocabulary of the properties *)

Files == DOMAIN disk

NumFiles == Cardinality(Files)

(* The images a file holds: its frames if it has the per-frame sequence, else one. *)
ImageCount(f) ==
    IF \E i \in 1..Len(f.ds) : f.ds[i].keyword = PerFrameFunctionalGroupsSequence
    THEN Len(KeywordValue(f.ds, PerFrameFunctionalGroupsSequence).items)
    ELSE 1

(* Layout tag and images per file as the classifier's rule gives them for a file. *)
LayoutOf(f) ==
    IF \E i \in 1..Len(f.ds) : f.ds[i].keyword = PerFrameFunctionalGroupsSequence
    THEN <<2, ImageCount(f)>>
    ELSE <<1, 1>>

(* The file whose name is least. *)
FirstFile == CHOOSE i \in Files : \A j \in Files : ~StrLess(FileName(j), FileName(i))

(* The positions of a table's rows that carry file i's base name. *)
RowsOfFile(table, i) == {j \in 1..Len(table) : table[j].file_name = StrV(FileName(i))}

(* The frame indices of the extractions made on file i, in order. *)
FramesCalled(i) == SelectSeq(calls, LAMBDA c : c[1] = i)

(* Position of file i in the sorted list. *)
PositionOf(i) == CHOOSE p \in 1..Len(dicom_files) : dicom_files[p] = i

SameKey(a, b) ==
    /\ a.acquisition_date = b.acquisition_date
    /\ a.acquisition_time = b.acquisition_time

KeyBefore(a, b) ==
    \/ StrLess(a.acquisition_date.s, b.acquisition_date.s)
    \/ /\ a.acquisition_date = b.acquisition_date
       /\ StrLess(a.acquisition_time.s, b.acquisition_time.s)

(* Where row k of rows stands after a stable ascending sort. *)
StablePosition(rows, k) ==
    Cardinality({j \in 1..Len(rows) : KeyBefore(rows[j], rows[k])})
    + Cardinality({j \in 1..k : SameKey(rows[j], rows[k])})

-----------------------------------------------------------------------------
(* C1: a run that completes on N files that all hold K images writes N*K    *)
(* rows: each file gives K rows under its base name, one per frame 0..K-1.  *)
C1_RowCount ==
    (pc = "done" /\ \A i \in Files : ImageCount(disk[i]) = ImageCount(disk[FirstFile]))
    => \E K \in {ImageCount(disk[FirstFile])} :
           /\ Len(csv) = NumFiles * K
           /\ \A i \in Files :
                  /\ Cardinality(RowsOfFile(csv, i)) = K
                  /\ FramesCalled(i) = [f \in 1..K |-> <<i, dicom_type, f - 1>>]

C1_Witness ==
    /\ pc = "done"
    /\ NumFiles = 2
    /\ \A i \in Files : ImageCount(disk[i]) = 3
    /\ Len(csv) = 6

(* C2: the table written is the assembled rows in ascending (date, time)     *)
(* order, dates compared first, rows of equal date and time in assembly order. *)
C2_StableSort ==
    pc = "done"
    => /\ Len(csv) = Len(df)
       /\ \A k \in 1..Len(df) : csv[StablePosition(df, k)] = df[k]
       /\ \A i, j \in 1..Len(csv) :
              i < j => \/ StrLess(csv[i].acquisition_date.s, csv[j].acquisition_date.s)
                       \/ /\ csv[i].acquisition_date = csv[j].acquisition_date
                          /\ ~StrLess(csv[j].acquisition_time.s, csv[i].acquisition_time.s)

C2_Witness ==
    /\ pc = "done"
    /\ csv # df
    /\ \E i, j \in 1..Len(csv) :
           /\ i < j
           /\ SameKey(csv[i], csv[j])
           /\ csv[i].file_name # csv[j].file_name
    /\ \E i, j \in 1..Len(csv) :
           /\ i < j
           /\ StrLess(csv[i].acquisition_date.s, csv[j].acquisition_date.s)
           /\ StrLess(csv[j].acquisition_time.s, csv[i].acquisition_time.s)

(* Whether the run cannot get past file i: it is unreadable or one of the    *)
(* frames of the run's range fails to extract.                               *)
FileFails(i) ==
    \/ ~disk[i].readable
    \/ \E f \in FrameRange : ExtractRow(i, dictify(disk[i].ds), dicom_type, f).err # "none"

(* C3: the table is written at most once, and only by a run in which every   *)
(* extraction of every file succeeded; a run that aborts stops at the first  *)
(* error, touches no later file and writes nothing.                          *)
C3_AtomicBatch ==
    /\ csv_writes <= 1
    /\ csv_writes = 1
       => /\ pc = "done"
          /\ error = "none"
          /\ NumFiles > 0
          /\ idx = NumFiles
          /\ Len(df) = NumFiles * n_images_per_file
          /\ \A i \in Files :
                 FramesCalled(i) = [f \in 1..n_images_per_file |-> <<i, dicom_type, f - 1>>]
    /\ pc # "done" => csv_writes = 0 /\ csv = <<>>
    /\ pc = "aborted"
       => /\ error # "none"
          /\ ~ENABLED Next
          /\ \/ NumFiles = 0 /\ error = "IndexError" /\ calls = <<>>
             \/ /\ idx < NumFiles
                /\ FileFails(dicom_files[idx + 1])
                /\ \A p \in 1..idx : ~FileFails(dicom_files[p])
                /\ \A c \in 1..Len(calls) : PositionOf(calls[c][1]) <= idx + 1
                /\ \A j \in 1..Len(df) :
                       \E p \in 1..(idx + 1) : df[j].file_name = StrV(FileName(dicom_files[p]))

C3_Witness ==
    /\ pc = "aborted"
    /\ idx >= 1
    /\ idx + 1 < NumFiles
    /\ df # <<>>
    /\ csv_writes = 0

(* C4: the layout tag and the images per file are those of the first file in *)
(* name order, from classification on, and every extraction is made with     *)
(* that tag and a frame index below that count, whatever the file holds.      *)
C4_ClassifiedOnce ==
    /\ pc \in {"start", "list", "classify"} => dicom_type = 0
    /\ pc \in {"files", "frames", "done"} => dicom_type # 0
    /\ dicom_type # 0 => <<dicom_type, n_images_per_file>> = LayoutOf(disk[FirstFile])
    /\ \A c \in 1..Len(calls) :
           /\ calls[c][2] = dicom_type
           /\ calls[c][3] \in 0..(n_images_per_file - 1)

C4_Witness ==
    /\ pc = "frames"
    /\ \E c \in 1..Len(calls) :
           /\ calls[c][1] # FirstFile
           /\ LayoutOf(disk[calls[c][1]]) # <<dicom_type, n_images_per_file>>

(* A readable file of unrecognized layout: neither the per-frame sequence    *)
(* nor the legacy NominalInterval.                                           *)
Unrecognized(f) ==
    /\ f.readable
    /\ \A i \in 1..Len(f.ds) :
           f.ds[i].keyword \notin {PerFrameFunctionalGroupsSequence, NominalInterval}

(* The file the loop is at. *)
AtFile(i) == idx < Len(dicom_files) /\ dicom_files[idx + 1] = i

HasAbsentField(row) ==
    \/ row.nominal_interval.kind = "none"
    \/ row.acquisition_time.kind = "none"
    \/ row.acquisition_date.kind = "none"
    \/ row.nii_file_suffix.kind = "none"

(* C5 as stated: a file of unrecognized layout raises no error; the run goes *)
(* on with absent values and writes the table.                               *)
C5_SilentAbsentValues ==
    \A i \in Files :
        (Unrecognized(disk[i]) /\ dicom_type # 0 /\ AtFile(i)) => pc # "aborted"

(* C5 amended: the first extraction attempted on a file of unrecognized      *)
(* layout raises KeyError and ends the run with no table written; no row is  *)
(* made for such a file and no row holds an absent value.  Only a run with   *)
(* no images per file, which attempts no extraction, gets past such a file.  *)
C5_UnrecognizedAborts ==
    /\ \A j \in 1..Len(df) : ~HasAbsentField(df[j])
    /\ \A i \in Files :
           Unrecognized(disk[i])
           => /\ RowsOfFile(df, i) = {}
              /\ RowsOfFile(csv, i) = {}
              /\ (pc = "frames" /\ AtFile(i)) => frame_idx = 0
              /\ (pc = "aborted" /\ dicom_type # 0 /\ AtFile(i))
                 => error = "KeyError" /\ frame_idx = 0 /\ csv_writes = 0
              /\ (pc = "files" /\ n_images_per_file >= 1) => PositionOf(i) > idx
              /\ pc = "done" => n_images_per_file = 0

C5_Witness ==
    /\ pc = "aborted"
    /\ error = "KeyError"
    /\ df # <<>>
    /\ \E i \in Files : Unrecognized(disk[i]) /\ AtFile(i)

(* The public keywords of a dataset's elements. *)
PublicKeywords(ds) == {ds[i].keyword : i \in {j \in 1..Len(ds) : ds[j].keyword # <<>>}}

(* The keys of a dict. *)
Keys(d) == {d.entries[i].key : i \in 1..Len(d.entries)}

SyntheticKeys(ds) ==
    (IF \E i \in 1..Len(ds) : ds[i].tag = <<25, 4108>> THEN {DiffusionBValue} ELSE {})
    \cup (IF \E i \in 1..Len(ds) : ds[i].tag = <<25, 4110>>
          THEN {DiffusionGradientDirection} ELSE {})

(* C8: the keys of a flattened header are the public keywords of the         *)
(* dataset's elements and the two synthetic keys of the private tags         *)
(* present; a private element adds no other key.  A sequence element is held *)
(* as a list under its keyword.                                              *)
C8_PublicKeysOnly ==
    \A i \in Files :
        (pc = "frames" /\ AtFile(i))
        => /\ Keys(c_dicom_header)
                  = PublicKeywords(disk[i].ds) \cup SyntheticKeys(disk[i].ds)
           /\ \A e \in 1..Len(disk[i].ds) :
                  (disk[i].ds[e].VR = "SQ" /\ disk[i].ds[e].keyword # <<>>)
                  => GetItem(c_dicom_header, disk[i].ds[e].keyword).val.kind = "list"

(* Whether the directory lets a run complete, whatever the converter did. *)
Completes ==
    /\ NumFiles > 0
    /\ \A i \in Files : disk[i].readable
    /\ \A i \in Files : \A f \in 0..(LayoutOf(disk[FirstFile])[2] - 1) :
           ExtractRow(i, dictify(disk[i].ds), LayoutOf(disk[FirstFile])[1], f).err = "none"

(* The rows of the directory's files in name order, frames in index order. *)
Assembled ==
    [k \in 1..(NumFiles * LayoutOf(disk[FirstFile])[2]) |->
        ExtractRow(dicom_files[((k - 1) \div LayoutOf(disk[FirstFile])[2]) + 1],
                   dictify(disk[dicom_files[((k - 1) \div LayoutOf(disk[FirstFile])[2]) + 1]].ds),
                   LayoutOf(disk[FirstFile])[1],
                   (k - 1) % LayoutOf(disk[FirstFile])[2]).val]

(* C9: the converter is run exactly once, before any file is listed or read, *)
(* and whether the run completes and what it writes depend on the directory  *)
(* alone, not on the converter's outcome.                                    *)
C9_ConverterIgnored ==
    /\ converter_calls <= 1
    /\ (pc = "start") = (converter_calls = 0)
    /\ (converter = "none") = (converter_calls = 0)
    /\ pc = "start"
       => dicom_files = <<>> /\ dicom_type = 0 /\ idx = 0 /\ calls = <<>> /\ df = <<>>
    /\ pc \in {"done", "aborted"} => (pc = "done") = Completes
    /\ pc = "done"
       => /\ df = Assembled
          /\ Len(csv) = Len(df)
          /\ \A k \in 1..Len(df) : csv[StablePosition(df, k)] = df[k]

C9_Witness ==
    /\ pc = "done"
    /\ converter = "failed"
    /\ csv_writes = 1
    /\ csv # <<>>

(* A readable file that has the per-frame sequence. *)
IsMultiFrame(f) ==
    f.readable /\ \E i \in 1..Len(f.ds) : f.ds[i].keyword = PerFrameFunctionalGroupsSequence

(* C10: in a modern run with K frames in the first file, no frame index >= K *)
(* is extracted; a file with more frames gives K rows and the rest are       *)
(* absent from the table; a file with m < K frames ends the run with         *)
(* IndexError at frame index m, before anything is written.                  *)
C10_FrameBound ==
    dicom_type = 2
    => /\ \A c \in 1..Len(calls) : calls[c][3] < n_images_per_file
       /\ \A j \in 1..Len(dicom_files) : \E i \in {dicom_files[j]} :
              /\ (j <= idx /\ IsMultiFrame(disk[i]) /\ ImageCount(disk[i]) > n_images_per_file)
                 => /\ Cardinality(RowsOfFile(df, i)) = n_images_per_file
                    /\ FramesCalled(i) = [f \in 1..n_images_per_file |-> <<i, 2, f - 1>>]
                    /\ pc = "done" => Cardinality(RowsOfFile(csv, i)) = n_images_per_file
              /\ (IsMultiFrame(disk[i]) /\ ImageCount(disk[i]) < n_images_per_file)
                 => /\ j > idx
                    /\ pc # "done"
                    /\ (pc = "frames" /\ j = idx + 1) => frame_idx <= ImageCount(disk[i])
                    /\ (/\ pc = "aborted"
                        /\ j = idx + 1
                        /\ \A f \in 0..(ImageCount(disk[i]) - 1) :
                               ExtractRow(i, dictify(disk[i].ds), 2, f).err = "none")
                       => /\ error = "IndexError"
                          /\ calls[Len(calls)] = <<i, 2, ImageCount(disk[i])>>
                          /\ Cardinality(RowsOfFile(df, i)) = ImageCount(disk[i])
                          /\ csv_writes = 0
                          /\ csv = <<>>

C10_Witness ==
    /\ pc = "aborted"
    /\ error = "IndexError"
    /\ dicom_type = 2
    /\ \E i \in Files :
           /\ AtFile(i)
           /\ IsMultiFrame(disk[i])
           /\ ImageCount(disk[i]) >= 1
           /\ ImageCount(disk[i]) < n_images_per_file
    /\ \E i \in Files :
           /\ PositionOf(i) <= idx
           /\ ImageCount(disk[i]) > n_images_per_file
           /\ Cardinality(RowsOfFile(df, i)) = n_images_per_file

-----------------------------------------------------------------------------
(* Properties of the extractors, under SpecExtract *)

(* The whole number nearest to n/d; a tie goes up, or to the even neighbour. *)
Nearest(n, d, tie) ==
    CHOOSE k \in {n \div d, (n \div d) + 1} :
        \/ 2 * n - 2 * k * d < d /\ 2 * k * d - 2 * n < d
        \/ /\ 2 * n - 2 * k * d = d \/ 2 * k * d - 2 * n = d
           /\ IF tie = "up" THEN k * d > n ELSE k % 2 = 0

(* s with "_" (95) for each space (32) *)
Underscored(s) == [i \in 1..Len(s) |-> IF s[i] = 32 THEN 95 ELSE s[i]]

(* SeriesDescription, "_", SeriesDate, the rounded StudyTime, "_", SeriesNumber *)
SuffixText(in, tie) ==
    Underscored(in.desc \o <<95>> \o in.sdate
                \o IntToStr(Nearest(in.stime.n, in.stime.d, tie))
                \o <<95>> \o IntToStr(in.snum))

ScenarioInput ==
    [desc |-> DTI_SAX, sdate |-> Date0101,
     stime |-> [text |-> StudyTime143022_5, n |-> 1430225, d |-> 10],
     snum |-> 7, adate |-> Date0101, atime |-> Time143025, ni |-> StrV(Text850)]

(* "DTI_SAX_20230101143023_7" *)
Suffix143023 ==
    <<68, 84, 73, 95, 83, 65, 88, 95, 50, 48, 50, 51, 48, 49, 48, 49, 49, 52,
      51, 48, 50, 51, 95, 55>>

(* "DTI_SAX_20230101143022_7" *)
Suffix143022 ==
    <<68, 84, 73, 95, 83, 65, 88, 95, 50, 48, 50, 51, 48, 49, 48, 49, 49, 52,
      51, 48, 50, 50, 95, 55>>

(* C6 as stated: the suffix rounds StudyTime to the nearest second, a tie    *)
(* going up, and the worked example gives DTI_SAX_20230101143023_7.          *)
C6_SuffixHalfUp ==
    "legacy" \in h_pc
    => /\ h_legacy.err = "none"
       /\ h_legacy.val.nii_file_suffix = StrV(SuffixText(h_in, "up"))
       /\ h_in = ScenarioInput
          => h_legacy.val = Row(StrV(FileName(1)), Float850, StrV(Time143025),
                                StrV(Date0101), StrV(Suffix143023))

(* C6 amended: the same, a tie going to the even second, and the worked      *)
(* example gives DTI_SAX_20230101143022_7.                                   *)
C6_SuffixHalfEven ==
    "legacy" \in h_pc
    => /\ h_legacy.err = "none"
       /\ h_legacy.val.nii_file_suffix = StrV(SuffixText(h_in, "even"))
       /\ h_in = ScenarioInput
          => h_legacy.val = Row(StrV(FileName(1)), Float850, StrV(Time143025),
                                StrV(Date0101), StrV(Suffix143022))

C6_Witness ==
    /\ "legacy" \in h_pc
    /\ h_in = ScenarioInput
    /\ h_legacy.val.nii_file_suffix = StrV(Suffix143022)

(* C7: a legacy header and a modern header of the same single image give the *)
(* same four values: the modern date is the first 8 characters of the        *)
(* date-time, the modern time the rest, the suffix the same.                 *)
C7_LayoutEquivalence ==
    h_pc = {"legacy", "modern"}
    => /\ h_legacy.err = "none"
       /\ h_modern.err = "none"
       /\ h_modern.val = h_legacy.val
       /\ h_modern.val.acquisition_date = StrV(h_in.adate)
       /\ h_modern.val.acquisition_time = StrV(h_in.atime)
       /\ Len(h_modern.val.acquisition_date.s) = 8

C7_Witness ==
    /\ h_pc = {"legacy", "modern"}
    /\ h_in.atime = Time143025_5
    /\ h_in.adate = Date0102
    /\ h_modern.val.acquisition_time = StrV(Time143025_5)
    /\ h_modern.val = h_legacy.val

====
